---- MODULE Spec2Model ----
(***************************************************************************)
(* A model of openapi-api-generator: the parser (reference resolver, type  *)
(* converter, route extractor) of parser.ts, and the enum naming resolver  *)
(* and the emitter of Converter.ts.                                        *)
(*                                                                         *)
(* Strings are sequences of characters (one-character TLA+ strings, and a  *)
(* few multi-character tokens that no other token overlaps), so that name  *)
(* normalisation, reference parsing, key building and enum footprints are  *)
(* computed as the code computes them.                                     *)
(***************************************************************************)
EXTENDS Integers, Sequences, FiniteSets, TLC

VARIABLES
  entry,          \* the parsed entry document: [schemas, paths]
  disk,           \* the external files: file name -> [exists, schemas]
  loadFiles,      \* parser.ts loadFiles (a Set: insertion-ordered, no repeats)
  loadedFiles,    \* parser.ts loadedFiles
  types,          \* parser.ts types (a Map: insertion-ordered declarations)
  notLoadedTypes, \* parser.ts notLoadedTypes (a Set, insertion-ordered)
  apiMethods,     \* parser.ts apiMethods
  pc,             \* where parseOpenapi stands
  error,          \* the message of the Error that ended the run, or ""
  routeIdx,       \* index of the route being processed in entry.paths
  methodIdx,      \* index of the next method of that route
  pathParams,     \* parseOpenapi's pathParams Set of the current route
  refsSeen,       \* history: every ref key loadTypes has returned
  loads,          \* history: how often parseFile read each file (saturating)
  inlineEnums,    \* Converter.inlineEnums: name -> values
  duplicates,     \* the duplicates Set of the Converter constructor
  passes,         \* history: full traversals the constructor has made (saturating)
  cpc,            \* where the Converter constructor stands
  cerror,         \* the message of the Error the Converter threw, or ""
  useEnums,       \* the --use-enums option, kept as Converter.useEnums
  namespace,      \* the --namespace option, kept as Converter.namespace
  usedTypes,      \* Converter.usedTypes
  definitions     \* what extractDefinitions returned

parserVars == <<entry, disk, loadFiles, loadedFiles, types, notLoadedTypes,
                apiMethods, pc, error, routeIdx, methodIdx, pathParams,
                refsSeen, loads>>

converterVars == <<inlineEnums, duplicates, passes, cpc, cerror, useEnums, namespace,
                   usedTypes, definitions>>

(***************************************************************************)
(* Bounds of the model.                                                    *)
(***************************************************************************)
\* parseFile reads are counted up to this many per file.
MaxLoads == 3

(***************************************************************************)
(* Strings.                                                                *)
(***************************************************************************)
Str(c) == <<c>>

\* The characters /[.,!@#$%^&*()_-]+/ removes.
NormChars == {".", ",", "!", "@", "#", "$", "%", "^", "&", "*", "(", ")", "_", "-"}

\* A replace without the g flag and the +: only the first character of the
\* class is removed.
normalizeNameOnce(name) ==
  LET hits == {i \in 1..Len(name) : name[i] \in NormChars}
      first == CHOOSE i \in hits : \A j \in hits : i <= j
  IN IF hits = {} THEN name
     ELSE SubSeq(name, 1, first - 1) \o SubSeq(name, first + 1, Len(name))

normalizeName(name) == SelectSeq(name, LAMBDA c : c \notin NormChars)

SchemasPrefix == <<"/components/schemas/">>

startsWith(s, p) == Len(s) >= Len(p) /\ SubSeq(s, 1, Len(p)) = p

IsSpace(c) == c = " "

RECURSIVE trimLeft(_)
trimLeft(s) == IF s # <<>> /\ IsSpace(Head(s)) THEN trimLeft(Tail(s)) ELSE s

RECURSIVE trimRight(_)
trimRight(s) ==
  IF s # <<>> /\ IsSpace(s[Len(s)]) THEN trimRight(SubSeq(s, 1, Len(s) - 1)) ELSE s

trim(s) == trimRight(trimLeft(s))

\* String.prototype.split(sep) for a one-character separator.
RECURSIVE split(_, _)
split(s, sep) ==
  IF \E i \in 1..Len(s) : s[i] = sep
  THEN LET i == CHOOSE j \in 1..Len(s) : s[j] = sep /\ \A k \in 1..(j - 1) : s[k] # sep
       IN <<SubSeq(s, 1, i - 1)>> \o split(SubSeq(s, i + 1, Len(s)), sep)
  ELSE <<s>>

Range(s) == {s[i] : i \in 1..Len(s)}

Has(node, key) == key \in DOMAIN node

(***************************************************************************)
(* The module state convertType and loadTypes read and write, threaded     *)
(* through the recursion: env = [types, loadFiles, loadedFiles,            *)
(* notLoadedTypes, refs].                                                  *)
(***************************************************************************)
Ok(t, env) == [err |-> "", type |-> t, env |-> env]
Throw(msg, env) == [err |-> msg, type |-> [type |-> "undefined"], env |-> env]

typesHas(ts, key) == \E i \in 1..Len(ts) : ts[i].fullName = key

typesGet(ts, key) == ts[CHOOSE i \in 1..Len(ts) : ts[i].fullName = key]

\* Set.prototype.add on an insertion-ordered set.
setAdd(s, x) == IF x \in Range(s) THEN s ELSE Append(s, x)

setDelete(s, x) == SelectSeq(s, LAMBDA y : y # x)

\* Map.prototype.set: an existing key keeps its place.
typesSet(ts, decl) ==
  IF typesHas(ts, decl.fullName)
  THEN [i \in 1..Len(ts) |-> IF ts[i].fullName = decl.fullName THEN decl ELSE ts[i]]
  ELSE Append(ts, decl)

\* A loadTypes that forgets the key it has just seen.
markNotLoadedDropped(pending, normTypePath) == pending

\* Line 42: the key joins the pending set.
markNotLoaded(pending, normTypePath) == setAdd(pending, normTypePath)

\* The queueing condition of loadTypes: the file is named and not loaded yet.
wantsLoad(normFileName, env) ==
  normFileName # <<>> /\ normFileName \notin env.loadedFiles

loadTypes(typePath, fileName, env) ==
  LET parts == split(trim(typePath), "#")
  IN IF Len(parts) < 2
     THEN Throw("TypeError", env)
     ELSE
       LET file == parts[1]
           fullTypeName == parts[2]
           normFileName == IF file # <<>> THEN file ELSE fileName
           normTypePath == normFileName \o <<"#">> \o fullTypeName
       IN IF ~startsWith(fullTypeName, SchemasPrefix)
          THEN Throw("Invalid ref link", env)
          ELSE
            LET env1 ==
                  IF ~typesHas(env.types, normTypePath)
                  THEN [env EXCEPT
                          !.loadFiles = IF wantsLoad(normFileName, env)
                                        THEN setAdd(@, normFileName) ELSE @,
                          !.notLoadedTypes = markNotLoaded(@, normTypePath)]
                  ELSE env
            IN Ok([type |-> "ref", ref |-> normTypePath],
                  [env1 EXCEPT !.refs = @ \cup {normTypePath}])

NoObject == [type |-> "undefined"]

RECURSIVE convertType(_, _, _)
RECURSIVE convertFields(_, _, _, _, _)
RECURSIVE convertParts(_, _, _, _)

\* The fields loop of the 'object' case, lines 97-104: props are the
\* Object.entries still to convert, acc the fields pushed so far.
convertFields(props, required, file, env, acc) ==
  IF props = <<>>
  THEN Ok([type |-> "object", fields |-> acc], env)
  ELSE
    LET fieldName == props[1][1]
        r == convertType(props[1][2], file, env)
    IN IF r.err # ""
       THEN r
       ELSE convertFields(Tail(props), required, file, r.env,
              Append(acc, [name |-> normalizeName(fieldName),
                           type |-> r.type,
                           required |-> fieldName \in Range(required)]))

\* Array.prototype.map(part => convertType(part, file)) of allOf and oneOf.
convertParts(parts, file, env, acc) ==
  IF parts = <<>>
  THEN Ok(acc, env)
  ELSE
    LET r == convertType(parts[1], file, env)
    IN IF r.err # "" THEN r
       ELSE convertParts(Tail(parts), file, r.env, Append(acc, r.type))

\* The type the switch dispatches on, after the implicit-object rewrite.
effectiveType(propType) ==
  IF ~Has(propType, "type") /\ (Has(propType, "properties") \/ Has(propType, "additionalProperties"))
  THEN "object"
  ELSE IF Has(propType, "type") THEN propType.type ELSE "undefined"

convertObject(propType, file, env) ==
  LET withProps == Has(propType, "properties")
      pr == IF withProps
            THEN convertFields(propType.properties,
                               IF Has(propType, "required") THEN propType.required ELSE <<>>,
                               file, env, <<>>)
            ELSE Ok(NoObject, env)
  IN
  IF pr.err # "" THEN pr
  ELSE IF Has(propType, "allOf")
  THEN LET cr == convertParts(propType.allOf, file, pr.env, <<>>)
       IN IF cr.err # "" THEN cr
          ELSE Ok([type |-> "object-composition",
                   composition |-> IF withProps THEN Append(cr.type, pr.type) ELSE cr.type],
                  cr.env)
  ELSE IF Has(propType, "oneOf")
  THEN
    \* propertiesObject.fields.find reads propType.discriminator.propertyName
    \* for the first field it looks at.
    IF withProps /\ pr.type.fields # <<>> /\ ~Has(propType, "discriminator")
    THEN Throw("TypeError", pr.env)
    ELSE
      LET found == IF withProps
                   THEN {i \in 1..Len(pr.type.fields) :
                           pr.type.fields[i].name = propType.discriminator.propertyName}
                   ELSE {}
          first == CHOOSE i \in found : \A j \in found : i <= j
          discriminatorType ==
            IF found # {} /\ pr.type.fields[first].type.type = "ref"
            THEN pr.type.fields[first].type
            ELSE NoObject
          ur == convertParts(propType.oneOf, file, pr.env, <<>>)
      IN IF ur.err # "" THEN ur
         ELSE Ok([type |-> "union",
                  fieldsObject |-> pr.type,
                  union |-> ur.type,
                  discriminator |-> IF Has(propType, "discriminator")
                                    THEN propType.discriminator ELSE NoObject,
                  discriminatorType |-> discriminatorType],
                 ur.env)
  ELSE IF withProps
  THEN pr
  ELSE IF Has(propType, "additionalProperties")
  THEN IF propType.additionalProperties = [lit |-> "true"]
       THEN Ok([type |-> "free-form-map"], pr.env)
       ELSE LET er == convertType(propType.additionalProperties, file, pr.env)
            IN IF er.err # "" THEN er
               ELSE Ok([type |-> "map", elementType |-> er.type], er.env)
  ELSE Throw("Invalid object notation", pr.env)

convertType(propType, file, env) ==
  IF Has(propType, "$ref")
  THEN loadTypes(propType["$ref"], file, env)
  ELSE
    LET t == effectiveType(propType)
    IN CASE t \in {"boolean", "number"} -> Ok([type |-> t], env)
         [] t = "string" ->
              IF Has(propType, "enum")
              THEN Ok([type |-> "enum", values |-> propType.enum, extractedEnumName |-> <<>>], env)
              ELSE Ok([type |-> "string"], env)
         [] t = "integer" -> Ok([type |-> "number"], env)
         [] t = "array" ->
              IF ~Has(propType, "items")
              THEN Throw("Array without items specification", env)
              ELSE LET er == convertType(propType.items, file, env)
                   IN IF er.err # "" THEN er
                      ELSE Ok([type |-> "array", elementType |-> er.type], er.env)
         [] t = "object" -> convertObject(propType, file, env)
         [] OTHER -> Throw("Unknown field type", env)


(***************************************************************************)
(* fitModels: registers every schema of one document under                 *)
(* `${file}#/components/schemas/${schemaName}`.                            *)
(***************************************************************************)
\* The registry key fitModels builds for a schema of a file.
fullModelName(file, schemaName) == file \o <<"#">> \o SchemasPrefix \o schemaName

\* A registration that leaves the key pending.
registerModelPending(env, fullName, schemaName, type) ==
  [env EXCEPT
     !.types = typesSet(@, [name |-> normalizeName(schemaName),
                            fullName |-> fullName,
                            type |-> type])]

\* types.set(...) followed by notLoadedTypes.delete(...), lines 177-182.
registerModel(env, fullName, schemaName, type) ==
  [env EXCEPT
     !.types = typesSet(@, [name |-> normalizeName(schemaName),
                            fullName |-> fullName,
                            type |-> type]),
     !.notLoadedTypes = setDelete(@, fullName)]

RECURSIVE fitModels(_, _, _)
fitModels(schemas, file, env) ==
  IF schemas = <<>>
  THEN Ok(NoObject, env)
  ELSE
    LET schemaName == schemas[1][1]
        r == convertType(schemas[1][2], file, env)
    IN IF r.err # "" THEN r
       ELSE fitModels(Tail(schemas), file,
                      registerModel(r.env, fullModelName(file, schemaName), schemaName, r.type))

(***************************************************************************)
(* extractPathParams.                                                      *)
(***************************************************************************)
Digits == {"0", "1", "2", "3", "4", "5", "6", "7", "8", "9"}
LowerLetters == {"a", "b", "c", "d", "e", "f", "g", "h", "i", "j", "k", "l", "m",
                 "n", "o", "p", "q", "r", "s", "t", "u", "v", "w", "x", "y", "z"}
UpperLetters == {"A", "B", "C", "D", "E", "F", "G", "H", "I", "J", "K", "L", "M",
                 "N", "O", "P", "Q", "R", "S", "T", "U", "V", "W", "X", "Y", "Z"}
IdentStart == LowerLetters \cup UpperLetters \cup {"_"}
IdentChar == IdentStart \cup Digits

\* Whether /{([A-Za-z_][A-Za-z0-9_]*)}/ matches s[i..j].
placeholderAt(s, i, j) ==
  /\ j >= i + 2
  /\ s[i] = "{"
  /\ s[j] = "}"
  /\ s[i + 1] \in IdentStart
  /\ \A k \in (i + 2)..(j - 1) : s[k] \in IdentChar

hasPlaceholder(s) == \E i, j \in 1..Len(s) : placeholderAt(s, i, j)

\* The start of the leftmost match of the regular expression.
matchIndex(s) ==
  CHOOSE i \in 1..Len(s) :
    /\ \E j \in 1..Len(s) : placeholderAt(s, i, j)
    /\ \A i2 \in 1..(i - 1) : ~\E j \in 1..Len(s) : placeholderAt(s, i2, j)

matchEnd(s) == CHOOSE j \in 1..Len(s) : placeholderAt(s, matchIndex(s), j)

\* The while loop of lines 213-225: [params, updated] when no match is left.
RECURSIVE scanPathParams(_, _)
scanPathParams(updated, params) ==
  IF ~hasPlaceholder(updated)
  THEN [params |-> params, updated |-> updated]
  ELSE LET i == matchIndex(updated)
           j == matchEnd(updated)
       IN scanPathParams(SubSeq(updated, 1, i - 1) \o SubSeq(updated, j + 1, Len(updated)),
                         Append(params, SubSeq(updated, i + 1, j - 1)))

\* [err, params]: the identifiers in the order the loop pushed them.
extractPathParams(path) ==
  LET r == scanPathParams(path, <<>>)
  IN IF \E k \in 1..Len(r.updated) : r.updated[k] \in {"{", "}"}
     THEN [err |-> "Url have invalid parameter syntax", params |-> <<>>]
     ELSE [err |-> "", params |-> r.params]


(***************************************************************************)
(* parseOpenapi: one (route, method) iteration, lines 245-336.             *)
(***************************************************************************)
\* A method name left as the document spells it.
toUpperCaseKept(method) == method

toUpperCase(method) ==
  CASE method = "get" -> "GET"
    [] method = "post" -> "POST"
    [] method = "put" -> "PUT"
    [] method = "patch" -> "PATCH"
    [] OTHER -> method

\* `required` as the loop reads it: undefined when the declaration omits it.
requiredOf(d) == Has(d, "required") /\ d.required

\* The parameter pushed for a path declaration, lines 263-268.
pathParameter(d) ==
  [place |-> "IN_PATH", name |-> normalizeName(d.name),
   type |-> [type |-> "string"], required |-> TRUE]

\* A query parameter that is always mandatory.
queryParameterRequired(d) ==
  [place |-> "QUERY", name |-> normalizeName(d.name),
   type |-> [type |-> "string"], required |-> TRUE]

\* The parameter pushed for a query declaration, lines 270-275.
queryParameter(d) ==
  [place |-> "QUERY", name |-> normalizeName(d.name),
   type |-> [type |-> "string"], required |-> requiredOf(d)]

\* The parameters loop, lines 252-280: [err, pathParams, parameters].
RECURSIVE scanParameters(_, _, _)
scanParameters(declared, pp, parameters) ==
  IF declared = <<>>
  THEN [err |-> "", pathParams |-> pp, parameters |-> parameters]
  ELSE
    LET d == declared[1]
    IN IF d.in = "path"
       THEN IF ~requiredOf(d)
            THEN [err |-> "Non-required parameter", pathParams |-> pp, parameters |-> parameters]
            ELSE IF d.name \notin pp
            THEN [err |-> "Api path doesn't contain parameter", pathParams |-> pp,
                  parameters |-> parameters]
            ELSE scanParameters(Tail(declared), pp \ {d.name},
                                Append(parameters, pathParameter(d)))
       ELSE IF d.in = "query"
       THEN scanParameters(Tail(declared), pp, Append(parameters, queryParameter(d)))
       ELSE [err |-> "Invalid 'in' value", pathParams |-> pp, parameters |-> parameters]

\* Body parameters pushed in the opposite order.
bodyParametersReversed(fields) ==
  [i \in 1..Len(fields) |->
     [place |-> "BODY", name |-> fields[Len(fields) + 1 - i].name,
      type |-> fields[Len(fields) + 1 - i].type,
      required |-> fields[Len(fields) + 1 - i].required]]

\* The body fields pushed as BODY parameters, lines 301-308.
bodyParameters(fields) ==
  [i \in 1..Len(fields) |->
     [place |-> "BODY", name |-> fields[i].name, type |-> fields[i].type,
      required |-> fields[i].required]]

MethodFail(msg, pp, env) ==
  [err |-> msg, pathParams |-> pp, env |-> env, op |-> NoObject]

\* [err, pathParams, env, op]: op is the ApiMethod pushed when err = "".
processMethod(routePath, pp0, originalMethod, info, env) ==
  LET method == toUpperCase(originalMethod)
      ps == IF Has(info, "parameters")
            THEN scanParameters(info.parameters, pp0, <<>>)
            ELSE [err |-> "", pathParams |-> pp0, parameters |-> <<>>]
  IN
  IF ps.err # "" THEN MethodFail(ps.err, ps.pathParams, env)
  ELSE IF ps.pathParams # {} THEN MethodFail("Not all path parameters described", ps.pathParams, env)
  ELSE IF Has(info, "requestBody") /\ method = "GET"
  THEN MethodFail("Requested body in GET request", ps.pathParams, env)
  ELSE IF Has(info, "requestBody") /\ ~Has(info.requestBody, "schema")
  THEN MethodFail("Body without data in api", ps.pathParams, env)
  ELSE
    LET br == IF Has(info, "requestBody")
              THEN convertType(info.requestBody.schema, <<>>, env)
              ELSE Ok(NoObject, env)
    IN
    IF br.err # "" THEN MethodFail(br.err, ps.pathParams, br.env)
    ELSE
      LET isObject == Has(info, "requestBody") /\ br.type.type = "object"
          parameters == IF isObject
                        THEN ps.parameters \o bodyParameters(br.type.fields)
                        ELSE ps.parameters
          flatTypes == IF Has(info, "requestBody") /\ ~isObject THEN <<br.type>> ELSE <<>>
      IN
      IF Has(info, "responses") /\ ~Has(info.responses, "200")
      THEN MethodFail("Api without success result", ps.pathParams, br.env)
      ELSE
        LET withSchema == Has(info, "responses") /\ Has(info.responses["200"], "schema")
            rr == IF withSchema
                  THEN convertType(info.responses["200"].schema, <<>>, br.env)
                  ELSE Ok([type |-> "void"], br.env)
        IN
        IF rr.err # "" THEN MethodFail(rr.err, ps.pathParams, rr.env)
        ELSE [err |-> "",
              pathParams |-> ps.pathParams,
              env |-> rr.env,
              op |-> [method |-> method,
                      routePath |-> routePath,
                      params |-> [parameters |-> parameters, flatTypes |-> flatTypes],
                      resultType |-> rr.type]]

(***************************************************************************)
(* The run of parseOpenapi as a state machine.                             *)
(***************************************************************************)
Env == [types |-> types, loadFiles |-> loadFiles, loadedFiles |-> loadedFiles,
        notLoadedTypes |-> notLoadedTypes, refs |-> refsSeen]

\* The module state after a call that ended with env.
SetEnv(env) ==
  /\ types' = env.types
  /\ loadFiles' = env.loadFiles
  /\ loadedFiles' = env.loadedFiles
  /\ notLoadedTypes' = env.notLoadedTypes
  /\ refsSeen' = env.refs

\* A throw ends the run where it stands.
Fail(msg) == pc' = pc /\ error' = msg

\* Lines 235-239: the entry document is read and its schemas are added.
Start ==
  /\ error = ""
  /\ UNCHANGED converterVars
  /\ pc = "start"
  /\ LET r == fitModels(entry.schemas, <<>>, Env)
     IN /\ SetEnv(r.env)
        /\ IF r.err # "" THEN Fail(r.err) ELSE pc' = "routes" /\ error' = ""
  /\ UNCHANGED <<entry, disk, apiMethods, routeIdx, methodIdx, pathParams, loads>>

\* Line 242: the next route's template is scanned.
BeginRoute ==
  /\ error = ""
  /\ UNCHANGED converterVars
  /\ pc = "routes"
  /\ methodIdx = 0
  /\ routeIdx <= Len(entry.paths)
  /\ LET route == entry.paths[routeIdx]
         r == extractPathParams(route.path)
     IN IF r.err # ""
        THEN Fail(r.err) /\ UNCHANGED <<routeIdx, methodIdx, pathParams>>
        ELSE /\ pathParams' = Range(r.params)
             /\ IF route.methods = <<>>
                THEN routeIdx' = routeIdx + 1 /\ methodIdx' = 0
                ELSE routeIdx' = routeIdx /\ methodIdx' = 1
             /\ UNCHANGED <<pc, error>>
  /\ UNCHANGED <<entry, disk, loadFiles, loadedFiles, types, notLoadedTypes, apiMethods,
                 refsSeen, loads>>

\* Lines 244-337: one method of the current route.
Method ==
  /\ error = ""
  /\ UNCHANGED converterVars
  /\ pc = "routes"
  /\ methodIdx > 0
  /\ LET route == entry.paths[routeIdx]
         m == route.methods[methodIdx]
         r == processMethod(route.path, pathParams, m.method, m.info, Env)
     IN /\ SetEnv(r.env)
        /\ pathParams' = r.pathParams
        /\ IF r.err # ""
           THEN Fail(r.err) /\ UNCHANGED <<apiMethods, routeIdx, methodIdx>>
           ELSE /\ apiMethods' = Append(apiMethods, r.op)
                /\ IF methodIdx = Len(route.methods)
                   THEN routeIdx' = routeIdx + 1 /\ methodIdx' = 0
                   ELSE routeIdx' = routeIdx /\ methodIdx' = methodIdx + 1
                /\ UNCHANGED <<pc, error>>
  /\ UNCHANGED <<entry, disk, loads>>

\* Line 340: every route is done, recursiveLoad is entered.
EndRoutes ==
  /\ error = ""
  /\ UNCHANGED converterVars
  /\ pc = "routes"
  /\ methodIdx = 0
  /\ routeIdx > Len(entry.paths)
  /\ pc' = "load"
  /\ UNCHANGED <<entry, disk, loadFiles, loadedFiles, types, notLoadedTypes, apiMethods,
                 error, routeIdx, methodIdx, pathParams, refsSeen, loads>>

fileExists(fileName) == fileName \in DOMAIN disk /\ disk[fileName].exists

countLoad(fileName) ==
  IF fileName \in DOMAIN loads
  THEN [loads EXCEPT ![fileName] = IF @ < MaxLoads THEN @ + 1 ELSE @]
  ELSE loads

\* The Set.prototype.delete of line 198, after the file was parsed.
dequeue(queue, fileName) == setDelete(queue, fileName)

\* Lines 196-198: the next queued file is read, parsed, fitted, dequeued.
\* The iterator of a Set visits the entries in insertion order, those added
\* during the iteration included.
LoadFile ==
  /\ error = ""
  /\ UNCHANGED converterVars
  /\ pc = "load"
  /\ loadFiles # <<>>
  /\ LET fileName == Head(loadFiles)
     IN IF ~fileExists(fileName)
        THEN /\ Fail("ENOENT")
             /\ UNCHANGED <<loadFiles, loadedFiles, types, notLoadedTypes, refsSeen, loads>>
        ELSE LET r == fitModels(disk[fileName].schemas, fileName, Env)
             IN /\ loads' = countLoad(fileName)
                /\ IF r.err # ""
                   THEN Fail(r.err) /\ SetEnv(r.env)
                   ELSE /\ SetEnv([r.env EXCEPT !.loadFiles = dequeue(@, fileName)])
                        /\ UNCHANGED <<pc, error>>
  /\ UNCHANGED <<entry, disk, apiMethods, routeIdx, methodIdx, pathParams>>

\* Lines 204-206: the queue is empty; a pending key is fatal.
EndLoad ==
  /\ error = ""
  /\ UNCHANGED converterVars
  /\ pc = "load"
  /\ loadFiles = <<>>
  /\ IF notLoadedTypes # <<>>
     THEN Fail("can't be loaded")
     ELSE pc' = "loaded" /\ error' = error
  /\ UNCHANGED <<entry, disk, loadFiles, loadedFiles, types, notLoadedTypes, apiMethods,
                 routeIdx, methodIdx, pathParams, refsSeen, loads>>

typeNames(ts) == {ts[i].name : i \in 1..Len(ts)}

\* A check that counts the registry keys instead of the names.
hasDuplicateKeys(ts) == Len(ts) # Cardinality({ts[i].fullName : i \in 1..Len(ts)})

\* The test of line 344.
hasDuplicateNames(ts) == Len(ts) # Cardinality(typeNames(ts))

\* Lines 342-351: the duplicate-name check and the return.
Return ==
  /\ error = ""
  /\ UNCHANGED converterVars
  /\ pc = "loaded"
  /\ IF hasDuplicateNames(types)
     THEN Fail("Duplicate class has found")
     ELSE pc' = "done" /\ error' = error
  /\ UNCHANGED <<entry, disk, loadFiles, loadedFiles, types, notLoadedTypes, apiMethods,
                 routeIdx, methodIdx, pathParams, refsSeen, loads>>


(***************************************************************************)
(* The documents the runs are checked on.                                  *)
(***************************************************************************)
\* Schemas a document of the reference-resolution runs declares at most.
MaxSchemas == 1
\* Parameters a method of the route-extraction runs declares at most.
MaxParams == 2

FileA == <<"a">>
FileB == <<"b">>
ExtFiles == {FileA, FileB}

NameA == <<"A">>
NameB == <<"B">>
NameA_ == <<"A", "_">>

RefStr(file, name) == file \o <<"#">> \o SchemasPrefix \o name

StringSchema == [type |-> "string"]
RefSchema(r) == "$ref" :> r

\* Sequences of at most n elements of S.
SeqsUpTo(S, n) == UNION {[1..k -> S] : k \in 0..n}

\* Object.entries of a YAML mapping: the keys are distinct.
Entries(keys, values, n) ==
  {s \in SeqsUpTo(keys \X values, n) : \A i, j \in 1..Len(s) : s[i][1] = s[j][1] => i = j}

GetWithResult(schema) ==
  [method |-> "get", info |-> [responses |-> ("200" :> [schema |-> schema])]]

NoFile == [exists |-> FALSE, schemas |-> <<>>]
FileOf(schemas) == [exists |-> TRUE, schemas |-> schemas]

\* The reference-resolution runs: an entry document and two external files
\* whose schemas are strings or references (into the same file, into the
\* other files, to schemas declared or not, one with another fragment, one
\* without '#').
EntrySchemas ==
  {StringSchema, RefSchema(RefStr(FileA, NameA)), RefSchema(RefStr(FileA, NameB)),
   RefSchema(RefStr(<<>>, NameB)), RefSchema(RefStr(FileB, NameB))}
FileASchemas ==
  {StringSchema, RefSchema(RefStr(FileB, NameB)), RefSchema(RefStr(FileB, NameA_)),
   RefSchema(RefStr(<<>>, NameA)), RefSchema(<<"#", "/definitions/", "A">>),
   RefSchema(NameA),
   [type |-> "array", items |-> RefSchema(RefStr(<<>>, NameB))]}
FileBSchemas ==
  {StringSchema, RefSchema(RefStr(FileA, NameA)), RefSchema(RefStr(FileA, NameB)),
   RefSchema(RefStr(<<>>, NameB))}

LoadPaths ==
  {<<>>,
   <<[path |-> <<"/", "x">>, methods |-> <<GetWithResult(RefSchema(RefStr(FileA, NameA)))>>]>>}

LoadDisk ==
  \E da \in {NoFile} \cup {FileOf(s) : s \in Entries({NameA, NameB}, FileASchemas, MaxSchemas)},
     db \in {NoFile} \cup {FileOf(s) : s \in Entries({NameB, NameA_}, FileBSchemas, MaxSchemas)} :
    disk = (FileA :> da) @@ (FileB :> db)

InitLoadDocs ==
  /\ entry \in [schemas : Entries({NameA, NameB}, EntrySchemas, MaxSchemas), paths : LoadPaths]
  /\ LoadDisk

\* The runs whose entry document holds one reference into file a.
InitChainDocs ==
  /\ entry = [schemas |-> <<<<NameA, RefSchema(RefStr(FileA, NameA))>>>>, paths |-> <<>>]
  /\ LoadDisk

\* The route-extraction runs: one route of one or two methods.
RouteTemplates ==
  {<<"/", "x">>,
   <<"/", "{", "i", "}">>,
   <<"/", "{", "a", "_", "b", "}">>,
   <<"/", "{", "i">>}

ParamDecls ==
  {[in |-> "path", name |-> <<"i">>, required |-> TRUE],
   [in |-> "path", name |-> <<"i">>, required |-> FALSE],
   [in |-> "path", name |-> <<"a", "_", "b">>, required |-> TRUE],
   [in |-> "query", name |-> <<"q">>, required |-> FALSE]}

RouteInfos ==
  {[responses |-> ("200" :> [schema |-> RefSchema(RefStr(FileA, NameA))])]}
    \cup {[parameters |-> ps] : ps \in SeqsUpTo(ParamDecls, MaxParams)}

MethodNames == {"get", "post"}

RouteMethods ==
  {s \in SeqsUpTo([method : MethodNames, info : RouteInfos], Cardinality(MethodNames)) :
     \A i, j \in 1..Len(s) : s[i].method = s[j].method => i = j}

InitRouteDocs ==
  /\ entry \in [schemas : {<<>>},
                paths : {<<[path |-> t, methods |-> ms]>> : t \in RouteTemplates, ms \in RouteMethods}]
  /\ disk = (FileA :> FileOf(<<<<NameA, StringSchema>>>>)) @@ (FileB :> NoFile)

InitRun ==
  /\ loadFiles = <<>>
  /\ loadedFiles = {}
  /\ types = <<>>
  /\ notLoadedTypes = <<>>
  /\ apiMethods = <<>>
  /\ pc = "start"
  /\ error = ""
  /\ routeIdx = 1
  /\ methodIdx = 0
  /\ pathParams = {}
  /\ refsSeen = {}
  /\ loads = [f \in ExtFiles |-> 0]
  /\ inlineEnums = <<>>
  /\ duplicates = {}
  /\ passes = 0
  /\ cpc = "none"
  /\ cerror = ""
  /\ usedTypes = {}
  /\ definitions = <<>>

\* A run without --use-enums and --namespace.
DefaultOptions == useEnums = FALSE /\ namespace = <<>>

Init == InitLoadDocs /\ InitRun /\ DefaultOptions

RouteInit == InitRouteDocs /\ InitRun /\ DefaultOptions

Next ==
  \/ Start
  \/ BeginRoute
  \/ Method
  \/ EndRoutes
  \/ LoadFile
  \/ EndLoad
  \/ Return

vars == <<parserVars, converterVars>>

\* parseOpenapi on the reference-resolution documents.
Spec == Init /\ [][Next]_vars

\* parseOpenapi on the route-extraction documents.
RouteSpec == RouteInit /\ [][Next]_vars


\* The load loop with every step it can take eventually taken: the run is a
\* single chain of awaits, nothing else is scheduled.
ChainInit == InitChainDocs /\ InitRun /\ DefaultOptions

ChainNext ==
  \/ Start
  \/ EndRoutes
  \/ LoadFile
  \/ EndLoad
  \/ Return

FairSpec == ChainInit /\ [][ChainNext]_vars /\ WF_vars(ChainNext)

Failed == error # ""

registryKeys(ts) == {ts[i].fullName : i \in 1..Len(ts)}

(***************************************************************************)
(* C1. Reference closure: when parseOpenapi has left the load loop without *)
(* throwing, every ref key loadTypes produced is a key of the registry and *)
(* the pending set is empty; a run that left the loop with a key still     *)
(* unregistered has failed with the "can't be loaded" error.               *)
(***************************************************************************)
C1_ReferenceClosure ==
  /\ (pc \in {"loaded", "done"}) =>
       (refsSeen \subseteq registryKeys(types) /\ notLoadedTypes = <<>>)
  /\ (pc = "load" /\ loadFiles = <<>> /\ Failed) =>
       (error = "can't be loaded" /\ \E k \in refsSeen : k \notin registryKeys(types))
  /\ (~Failed /\ pc = "load" /\ loadFiles = <<>> /\ ~(refsSeen \subseteq registryKeys(types))) =>
       notLoadedTypes # <<>>

\* A run over both external files returned with every reference resolved.
C1_Witness ==
  /\ pc = "done"
  /\ loads[FileA] = 1 /\ loads[FileB] = 1
  /\ Cardinality(refsSeen) >= 2

\* A run that left the loop with a dangling reference and was stopped.
C1_WitnessDangling == error = "can't be loaded"

(***************************************************************************)
(* C2. Termination of the load loop: every run eventually returns or       *)
(* throws.                                                                 *)
(***************************************************************************)
C2_LoadTerminates == <>(pc = "done" \/ Failed)

(***************************************************************************)
(* C3. Each external file is read and parsed at most once in a run.        *)
(***************************************************************************)
C3_ReadAtMostOnce == \A f \in ExtFiles : loads[f] <= 1

(***************************************************************************)
(* C4. Path-parameter bijection: for every operation appended to the       *)
(* operation list, the set of {placeholder} names of its route template    *)
(* equals the set of names of its IN_PATH parameters (the placeholder      *)
(* names taken as normalizeName leaves them, as the parameter names are).  *)
(***************************************************************************)
placeholders(routePath) == Range(extractPathParams(routePath).params)

inPathNames(op) ==
  {op.params.parameters[i].name :
     i \in {k \in 1..Len(op.params.parameters) : op.params.parameters[k].place = "IN_PATH"}}

C4_PathParamBijection ==
  \A k \in 1..Len(apiMethods) :
    {normalizeName(p) : p \in placeholders(apiMethods[k].routePath)} = inPathNames(apiMethods[k])

(***************************************************************************)
(* C5. An operation is rejected with a path-parameter error exactly when   *)
(* its own declaration mismatches the route template, whatever the other   *)
(* methods of the route declare: an operation that was appended has no     *)
(* mismatch, and one rejected with a path-parameter error has one.         *)
(***************************************************************************)
declaredPathNames(info) ==
  IF Has(info, "parameters")
  THEN SelectSeq(info.parameters, LAMBDA d : d.in = "path")
  ELSE <<>>

ownMismatch(routePath, info) ==
  LET declared == declaredPathNames(info)
      names == {declared[i].name : i \in 1..Len(declared)}
  IN \/ names # placeholders(routePath)
     \/ \E i, j \in 1..Len(declared) : i # j /\ declared[i].name = declared[j].name

PathParamErrors == {"Api path doesn't contain parameter", "Not all path parameters described"}

\* The documents of these runs hold one route: the k-th operation appended is
\* the route's k-th method.
C5_RejectedIffOwnMismatch ==
  /\ \A k \in 1..Len(apiMethods) :
       ~ownMismatch(entry.paths[1].path, entry.paths[1].methods[k].info)
  /\ (pc = "routes" /\ methodIdx > 0 /\ error \in PathParamErrors) =>
       ownMismatch(entry.paths[routeIdx].path, entry.paths[routeIdx].methods[methodIdx].info)

(***************************************************************************)
(* C6. Name uniqueness: when parseOpenapi returns, registry entries with   *)
(* distinct keys have distinct local names; a run that reached the check   *)
(* with two keys sharing a name has failed with the duplicate-name error.  *)
(***************************************************************************)
namesDistinct(ts) ==
  \A i, j \in 1..Len(ts) : ts[i].fullName # ts[j].fullName => ts[i].name # ts[j].name

C6_NameUniqueness ==
  /\ pc = "done" => namesDistinct(types)
  /\ (pc = "loaded" /\ Failed) => (error = "Duplicate class has found" /\ ~namesDistinct(types))
  /\ error = "Duplicate class has found" => pc = "loaded"

\* Two schemas of different files whose names differ only by punctuation
\* reached the check.
C6_Witness ==
  /\ error = "Duplicate class has found"
  /\ \E i, j \in 1..Len(types) :
       /\ types[i].name = types[j].name
       /\ types[i].fullName[Len(types[i].fullName)] # types[j].fullName[Len(types[j].fullName)]


(***************************************************************************)
(* Converter.ts: the strings of the enum naming resolver.  Names are made  *)
(* of letters and separators (any other character); digits are not in the  *)
(* alphabet of the model.                                                  *)
(***************************************************************************)
LowerSeq == <<"a", "b", "c", "d", "e", "f", "g", "h", "i", "j", "k", "l", "m",
              "n", "o", "p", "q", "r", "s", "t", "u", "v", "w", "x", "y", "z">>
UpperSeq == <<"A", "B", "C", "D", "E", "F", "G", "H", "I", "J", "K", "L", "M",
              "N", "O", "P", "Q", "R", "S", "T", "U", "V", "W", "X", "Y", "Z">>

indexOf(seq, c) == CHOOSE i \in 1..Len(seq) : seq[i] = c

lowerChar(c) == IF c \in UpperLetters THEN LowerSeq[indexOf(UpperSeq, c)] ELSE c
upperChar(c) == IF c \in LowerLetters THEN UpperSeq[indexOf(LowerSeq, c)] ELSE c

toLower(s) == [i \in 1..Len(s) |-> lowerChar(s[i])]
toUpper(s) == [i \in 1..Len(s) |-> upperChar(s[i])]

\* The first index from i on whose character is not in S.
RECURSIVE runEnd(_, _, _)
runEnd(s, i, S) == IF i <= Len(s) /\ s[i] \in S THEN runEnd(s, i + 1, S) ELSE i

\* lodash words(): an optional capital followed by small letters is a word;
\* a run of capitals is a word, without its last capital when a small letter
\* follows; everything else separates.
RECURSIVE words(_, _)
words(s, p) ==
  IF p > Len(s) THEN <<>>
  ELSE IF s[p] \in LowerLetters
  THEN LET e == runEnd(s, p, LowerLetters)
       IN <<SubSeq(s, p, e - 1)>> \o words(s, e)
  ELSE IF s[p] \in UpperLetters
  THEN IF p < Len(s) /\ s[p + 1] \in LowerLetters
       THEN LET e == runEnd(s, p + 1, LowerLetters)
            IN <<SubSeq(s, p, e - 1)>> \o words(s, e)
       ELSE LET u == runEnd(s, p, UpperLetters)
                e == IF u <= Len(s) /\ s[u] \in LowerLetters THEN u - 1 ELSE u
            IN <<SubSeq(s, p, e - 1)>> \o words(s, e)
  ELSE words(s, p + 1)

\* lodash capitalize(): the first character upper case, the rest lower case.
capitalize(w) == IF w = <<>> THEN w ELSE <<upperChar(w[1])>> \o toLower(Tail(w))

RECURSIVE join(_, _)
join(parts, sep) ==
  IF parts = <<>> THEN <<>>
  ELSE IF Len(parts) = 1 THEN parts[1]
  ELSE parts[1] \o sep \o join(Tail(parts), sep)

\* lodash camelCase(): the words in lower case, all but the first capitalized.
camelCase(str) ==
  LET ws == words(str, 1)
  IN join([i \in 1..Len(ws) |-> IF i = 1 THEN toLower(ws[i]) ELSE capitalize(ws[i])], <<>>)

\* Lines 6-9.  formatted[0] is undefined when camelCase leaves nothing: the
\* callers test camelCase(str) = <<>> for the TypeError.
pascalCase(str) ==
  LET formatted == camelCase(str)
  IN <<upperChar(formatted[1])>> \o Tail(formatted)

\* Lines 11-13: lodash snakeCase() joins the lower-case words with "_".
upperSnakeCase(str) ==
  LET ws == words(str, 1)
  IN toUpper(join([i \in 1..Len(ws) |-> toLower(ws[i])], <<"_">>))

\* The order of String.prototype.localeCompare on the characters of enum
\* values: punctuation sorts before the letters.
Collation == <<"|">> \o LowerSeq

RECURSIVE localeCompare(_, _)
localeCompare(a, b) ==
  IF a = <<>> /\ b = <<>> THEN 0
  ELSE IF a = <<>> THEN -1
  ELSE IF b = <<>> THEN 1
  ELSE IF indexOf(Collation, a[1]) < indexOf(Collation, b[1]) THEN -1
  ELSE IF indexOf(Collation, a[1]) > indexOf(Collation, b[1]) THEN 1
  ELSE localeCompare(Tail(a), Tail(b))

\* Array.prototype.sort by value: a stable insertion sort.
RECURSIVE insertSorted(_, _)
insertSorted(sorted, v) ==
  IF sorted = <<>> THEN <<v>>
  ELSE IF localeCompare(v.value, sorted[1].value) < 0 THEN <<v>> \o sorted
  ELSE <<sorted[1]>> \o insertSorted(Tail(sorted), v)

RECURSIVE sortByValue(_)
sortByValue(enumValues) ==
  IF enumValues = <<>> THEN <<>>
  ELSE insertSorted(sortByValue(SubSeq(enumValues, 1, Len(enumValues) - 1)),
                    enumValues[Len(enumValues)])

\* Lines 17-22.
enumFootprint(enumValues) ==
  LET sorted == sortByValue(enumValues)
  IN join([i \in 1..Len(sorted) |-> sorted[i].value], <<"|">>)

\* Lines 24-26.
compareEnums(enum1, enum2) == enumFootprint(enum1) = enumFootprint(enum2)

\* Lines 28-33.
fulfillEnumValues(values) ==
  [i \in 1..Len(values) |-> [key |-> upperSnakeCase(values[i]), value |-> values[i]]]


(***************************************************************************)
(* Converter.ts: the constructor's fix-point and traverse.  The naming     *)
(* state threaded through a traversal is st = [inlineEnums, duplicates];   *)
(* a traversal returns [err, type, st] with the node as it was mutated.    *)
(***************************************************************************)
\* Passes of the constructor's loop are counted up to this many.
MaxPasses == 4

\* Map.prototype.set and delete on inlineEnums.
mapSet(map, k, v) == (k :> v) @@ map
mapDelete(map, k) == [x \in DOMAIN map \ {k} |-> map[x]]

TypeWord == <<"T", "y", "p", "e">>

\* Line 69: a declaration that is an enum and has this name.
globalEnum(ts, extractedEnumName) ==
  \E i \in 1..Len(ts) : ts[i].type.type = "enum" /\ ts[i].name = extractedEnumName

\* A test that looks at the enum declarations only.
nameTakenByEnum(ts, extractedEnumName) ==
  \E i \in 1..Len(ts) : ts[i].type.type = "enum" /\ ts[i].name = extractedEnumName

\* Line 80: a declaration of any kind has this name.
nameTaken(ts, extractedEnumName) ==
  \E i \in 1..Len(ts) : ts[i].name = extractedEnumName

\* Lines 85-87: the name is claimed in inlineEnums by another footprint.
claimedByOther(st, extractedEnumName, values) ==
  /\ extractedEnumName \in DOMAIN st.inlineEnums
  /\ ~compareEnums(st.inlineEnums[extractedEnumName], values)

\* The while loop of lines 77-104 and the assignment of lines 106-108:
\* [err, name, st].  pathIndex counts from 1; 0 is the code's -1.
RECURSIVE resolveName(_, _, _, _, _, _)
resolveName(ts, extractedEnumName, pathIndex, path, values, st) ==
  LET taken == nameTaken(ts, extractedEnumName)
      recorded == extractedEnumName \in st.duplicates
      evict == ~taken /\ ~recorded /\ claimedByOther(st, extractedEnumName, values)
      isDuplicate == taken \/ recorded \/ evict
      st1 == IF evict
             THEN [inlineEnums |-> mapDelete(st.inlineEnums, extractedEnumName),
                   duplicates |-> st.duplicates \cup {extractedEnumName}]
             ELSE st
  IN IF isDuplicate \/ Len(extractedEnumName) < 3 \/ extractedEnumName = TypeWord
     THEN IF pathIndex < 1
          THEN [err |-> "Top level enums duplicates", name |-> <<>>, st |-> st1]
          ELSE resolveName(ts, pascalCase(path[pathIndex] \o extractedEnumName),
                           pathIndex - 1, path, values, st1)
     ELSE [err |-> "", name |-> extractedEnumName,
           st |-> [st1 EXCEPT !.inlineEnums = mapSet(@, extractedEnumName, values)]]

RECURSIVE traverse(_, _, _, _, _)
RECURSIVE traverseFields(_, _, _, _, _)
RECURSIVE traverseTypes(_, _, _)
RECURSIVE construct(_, _)

\* Line 111 has returned r for field i: the throw leaves the loop, otherwise
\* the next field is visited.
fieldVisited(ts, type, i, path, r) ==
  IF r.err # ""
  THEN [err |-> r.err, type |-> [type EXCEPT !.fields[i].type = r.type], st |-> r.st]
  ELSE traverseFields(ts, [type EXCEPT !.fields[i].type = r.type], i + 1, path, r.st)

\* The loop of lines 110-112 over the fields from index i on.
traverseFields(ts, type, i, path, st) ==
  IF i > Len(type.fields)
  THEN [err |-> "", type |-> type, st |-> st]
  ELSE fieldVisited(ts, type, i, path,
                    traverse(ts, type.fields[i].name, type.fields[i].type, path, st))

\* An assignment that also replaces the node's values by their keys.
enumNamedWithKeys(type, r) ==
  IF r.err # ""
  THEN [err |-> r.err, type |-> type, st |-> r.st]
  ELSE [err |-> "",
        type |-> [type EXCEPT !.extractedEnumName = r.name,
                              !.values = [i \in 1..Len(type.values) |->
                                            upperSnakeCase(type.values[i])]],
        st |-> r.st]

\* Lines 106-108 after the while loop has ended with r.
enumNamed(type, r) ==
  IF r.err # ""
  THEN [err |-> r.err, type |-> type, st |-> r.st]
  ELSE [err |-> "", type |-> [type EXCEPT !.extractedEnumName = r.name], st |-> r.st]

\* Lines 65-108 for the candidate extractedEnumName = pascalCase(name).
traverseEnum(ts, extractedEnumName, type, path, st) ==
  IF globalEnum(ts, extractedEnumName)
  THEN [err |-> "", type |-> type, st |-> st]
  ELSE enumNamed(type, resolveName(ts, extractedEnumName, Len(path), path,
                                   fulfillEnumValues(type.values), st))

\* Lines 63-116.
traverse(ts, name, type, path, st) ==
  CASE type.type = "enum" ->
         IF camelCase(name) = <<>>
         THEN [err |-> "TypeError", type |-> type, st |-> st]
         ELSE traverseEnum(ts, pascalCase(name), type, path, st)
    [] type.type = "object" -> traverseFields(ts, type, 1, path \o <<name>>, st)
    [] OTHER -> [err |-> "", type |-> type, st |-> st]

\* Line 54 has returned r for declaration i.
typeVisited(ts, i, r) ==
  IF r.err # ""
  THEN [err |-> r.err, types |-> [ts EXCEPT ![i].type = r.type], st |-> r.st]
  ELSE traverseTypes([ts EXCEPT ![i].type = r.type], i + 1, r.st)

\* Lines 53-55: one pass over this.types.values() from index i on:
\* [err, types, st].
traverseTypes(ts, i, st) ==
  IF i > Len(ts)
  THEN [err |-> "", types |-> ts, st |-> st]
  ELSE typeVisited(ts, i, traverse(ts, ts[i].name, ts[i].type, <<>>, st))

\* Lines 57-59 after a pass that began with duplicatesCount and ended with r.
passDone(duplicatesCount, r) ==
  IF r.err # "" \/ duplicatesCount = Cardinality(r.st.duplicates)
  THEN r
  ELSE construct(r.types, r.st)

\* Lines 49-60: the passes are repeated until one adds no duplicate.
construct(ts, st) == passDone(Cardinality(st.duplicates), traverseTypes(ts, 1, st))

\* Lines 43-49: new Converter({types}) on the registry parseOpenapi returned.
NewConverter ==
  /\ pc = "done"
  /\ cpc = "none"
  /\ cpc' = "loop"
  /\ inlineEnums' = <<>>
  /\ duplicates' = {}
  /\ usedTypes' = {}
  /\ UNCHANGED <<parserVars, passes, cerror, useEnums, namespace, definitions>>

\* A loop that ends only when no collision is recorded at all.
passedWhenEmpty(r) ==
  /\ types' = r.types
  /\ inlineEnums' = r.st.inlineEnums
  /\ duplicates' = r.st.duplicates
  /\ cerror' = r.err
  /\ cpc' = IF r.err = "" /\ r.st.duplicates = {} THEN "built" ELSE "loop"

\* The state after an iteration of the while loop whose pass ended with r.
passed(r) ==
  /\ types' = r.types
  /\ inlineEnums' = r.st.inlineEnums
  /\ duplicates' = r.st.duplicates
  /\ cerror' = r.err
  /\ cpc' = IF r.err = "" /\ Cardinality(duplicates) = Cardinality(r.st.duplicates)
            THEN "built"
            ELSE "loop"

\* Lines 50-59: one iteration of the while loop.
Pass ==
  /\ cpc = "loop"
  /\ cerror = ""
  /\ passed(traverseTypes(types, 1, [inlineEnums |-> inlineEnums, duplicates |-> duplicates]))
  /\ passes' = IF passes < MaxPasses THEN passes + 1 ELSE passes
  /\ UNCHANGED <<entry, disk, loadFiles, loadedFiles, notLoadedTypes, apiMethods, pc,
                 error, routeIdx, methodIdx, pathParams, refsSeen, loads, useEnums,
                 namespace, usedTypes, definitions>>


(***************************************************************************)
(* The documents the enum naming runs are checked on: an entry document    *)
(* of up to four schemas, objects with inline enums and top-level enums.   *)
(***************************************************************************)
Pet == <<"P", "e", "t">>
Dog == <<"D", "o", "g">>
TagDecl == <<"T", "a", "g">>
tag == <<"t", "a", "g">>
id == <<"i", "d">>
typeField == <<"t", "y", "p", "e">>
inField == <<"i", "n">>

\* The value lists: a and b in both orders, the one value "a|b", and b.
ValuesAB == <<Str("a"), Str("b")>>
ValuesBA == <<Str("b"), Str("a")>>
ValuesAorB == <<<<"a", "|", "b">>>>
ValuesB == <<Str("b")>>

EnumOf(values) == [type |-> "string", enum |-> values]
ObjectOf(props) == [type |-> "object", properties |-> props]

ObjectSchemas ==
  {ObjectOf(<<<<tag, EnumOf(v)>>>>) : v \in {ValuesAB, ValuesBA, ValuesAorB, ValuesB}}
    \cup {ObjectOf(<<<<id, EnumOf(ValuesAB)>>>>),
          ObjectOf(<<<<typeField, EnumOf(ValuesAB)>>>>),
          ObjectOf(<<<<tag, [type |-> "array", items |-> EnumOf(ValuesAB)]>>>>),
          ObjectOf(<<<<tag, EnumOf(ValuesB)>>,
                     <<inField, ObjectOf(<<<<tag, EnumOf(ValuesAB)>>>>)>>>>)}

\* The schemas a document may declare under each name.
EnumDecls ==
  ({Pet, Dog} \X ObjectSchemas)
    \cup ({TagDecl} \X {EnumOf(ValuesAB), EnumOf(ValuesB), StringSchema})
    \cup ({tag} \X {EnumOf(ValuesAB), EnumOf(ValuesB)})

EnumNames == {d[1] : d \in EnumDecls}

\* The schemas declared under a name, and one choice of them per name.
schemasNamed(name) == {d[2] : d \in {e \in EnumDecls : e[1] = name}}

EnumChoices ==
  {g \in [EnumNames -> {d[2] : d \in EnumDecls}] : \A n \in EnumNames : g[n] \in schemasNamed(n)}

\* Object.entries of the schemas mapping: some of the names, in any order.
EnumNameOrders ==
  {s \in SeqsUpTo(EnumNames, Cardinality(EnumNames)) :
     \A i, j \in 1..Len(s) : s[i] = s[j] => i = j}

EnumDocs ==
  {[i \in 1..Len(ns) |-> <<ns[i], g[ns[i]]>>] : ns \in EnumNameOrders, g \in EnumChoices}

EnumInit ==
  /\ entry \in [schemas : EnumDocs, paths : {<<>>}]
  /\ disk = (FileA :> NoFile) @@ (FileB :> NoFile)
  /\ InitRun
  /\ DefaultOptions

EnumNext ==
  \/ Start
  \/ EndRoutes
  \/ EndLoad
  \/ Return
  \/ NewConverter
  \/ Pass

\* parseOpenapi and new Converter on the enum documents.
EnumSpec == EnumInit /\ [][EnumNext]_vars


(***************************************************************************)
(* The enum nodes of a registry.  A node is described by where it stands   *)
(* (the declaration name followed by the field names and the markers of    *)
(* the array, map, composition and union steps that lead to it), by the    *)
(* nearest enclosing field or schema name, and by whether traverse reaches *)
(* it (it is a declaration or a field of reached objects only).            *)
(***************************************************************************)
ElementStep == <<"[", "]">>
PartStep(i) == [k \in 1..i |-> "&"]
MemberStep(i) == [k \in 1..i |-> "|"]

RECURSIVE enumNodesOf(_, _, _, _)
enumNodesOf(type, at, name, reached) ==
  CASE type.type = "enum" ->
         {[at |-> at, name |-> name, reached |-> reached, values |-> type.values,
           extractedEnumName |-> type.extractedEnumName]}
    [] type.type = "object" ->
         UNION {enumNodesOf(type.fields[i].type, Append(at, type.fields[i].name),
                            type.fields[i].name, reached) : i \in 1..Len(type.fields)}
    [] type.type \in {"array", "map"} ->
         enumNodesOf(type.elementType, Append(at, ElementStep), name, FALSE)
    [] type.type = "object-composition" ->
         UNION {enumNodesOf(type.composition[i], Append(at, PartStep(i)), name, FALSE) :
                  i \in 1..Len(type.composition)}
    [] type.type = "union" ->
         UNION {enumNodesOf(type.union[i], Append(at, MemberStep(i)), name, FALSE) :
                  i \in 1..Len(type.union)}
           \cup enumNodesOf(type.fieldsObject, Append(at, MemberStep(0)), name, FALSE)
    [] OTHER -> {}

enumNodes(ts) ==
  UNION {enumNodesOf(ts[i].type, <<ts[i].name>>, ts[i].name, TRUE) : i \in 1..Len(ts)}

\* The inline enums: the enum nodes below a declaration.
inlineNodes(ts) == {n \in enumNodes(ts) : Len(n.at) > 1}

valueSet(values) == Range(values)

named(n) == n.extractedEnumName # <<>>

Built == cpc = "built"

(***************************************************************************)
(* C7. When the Converter constructor has completed without error, two     *)
(* enum nodes that carry the same assigned name have the same set of       *)
(* values.                                                                 *)
(***************************************************************************)
C7_DifferentSetsDifferentNames ==
  Built =>
    \A n1, n2 \in enumNodes(types) :
      (named(n1) /\ n1.extractedEnumName = n2.extractedEnumName)
        => valueSet(n1.values) = valueSet(n2.values)

\* The candidate of an inline enum is one the rejection rules that do not
\* depend on other enums let pass.
candidateFree(ts, n) ==
  /\ Len(pascalCase(n.name)) >= 3
  /\ pascalCase(n.name) # TypeWord
  /\ ~nameTaken(ts, pascalCase(n.name))

(***************************************************************************)
(* C8. When the naming resolver has completed, two inline enums that are   *)
(* fields of objects, have the same candidate name (one that is long       *)
(* enough, not the word Type and not the name of a declaration) and have   *)
(* the same set of values, in whatever order, carry the same assigned      *)
(* name.                                                                   *)
(***************************************************************************)
C8_EqualSetsSameName ==
  Built =>
    \A n1, n2 \in inlineNodes(types) :
      ( /\ n1.reached /\ n2.reached
        /\ pascalCase(n1.name) = pascalCase(n2.name)
        /\ candidateFree(types, n1)
        /\ valueSet(n1.values) = valueSet(n2.values) )
        => n1.extractedEnumName = n2.extractedEnumName

(***************************************************************************)
(* C9. When the naming resolver has completed without error, every inline  *)
(* enum node of the registry, at whatever nesting, carries an assigned     *)
(* name or has the name of a top-level enum as its candidate.              *)
(***************************************************************************)
C9_EveryInlineEnumNamed ==
  Built =>
    \A n \in inlineNodes(types) :
      named(n) \/ globalEnum(types, pascalCase(n.name))


(***************************************************************************)
(* The traversal orders of a document: Object.entries gives the schemas    *)
(* and the properties in the order the document declares them, so the      *)
(* other orders are the runs on the document with its schemas permuted     *)
(* and the properties of its objects reversed.                             *)
(***************************************************************************)
permutations(s) ==
  {[i \in 1..Len(s) |-> s[p[i]]] :
     p \in {q \in [1..Len(s) -> 1..Len(s)] : \A i, j \in 1..Len(s) : q[i] = q[j] => i = j}}

RECURSIVE reverseProperties(_)
reverseProperties(schema) ==
  IF Has(schema, "properties")
  THEN [schema EXCEPT !.properties =
          [i \in 1..Len(@) |-> <<@[Len(@) + 1 - i][1],
                                 reverseProperties(@[Len(@) + 1 - i][2])>>]]
  ELSE schema

orderings(schemas) ==
  permutations(schemas)
    \cup permutations([i \in 1..Len(schemas) |->
                         <<schemas[i][1], reverseProperties(schemas[i][2])>>])

EmptyEnv == [types |-> <<>>, loadFiles |-> <<>>, loadedFiles |-> {},
             notLoadedTypes |-> <<>>, refs |-> {}]

\* The registry parseOpenapi returns for an entry document without
\* references, and the outcome of new Converter on it.
registryOf(schemas) == fitModels(schemas, <<>>, EmptyEnv).env.types

converterOn(schemas) ==
  construct(registryOf(schemas), [inlineEnums |-> <<>>, duplicates |-> {}])

\* The outcome of the run the state is in.
converterHere == [err |-> cerror, types |-> types,
                  st |-> [inlineEnums |-> inlineEnums, duplicates |-> duplicates]]

assignedNames(r) == {<<n.at, n.extractedEnumName>> : n \in enumNodes(r.types)}

nameToValueSet(r) ==
  {<<k, {r.st.inlineEnums[k][i].value : i \in 1..Len(r.st.inlineEnums[k])}>> :
     k \in DOMAIN r.st.inlineEnums}

sameOutcome(r1, r2) ==
  /\ (r1.err = "") = (r2.err = "")
  /\ r1.err = "" => /\ assignedNames(r1) = assignedNames(r2)
                    /\ nameToValueSet(r1) = nameToValueSet(r2)

(***************************************************************************)
(* C10. Naming does not depend on the traversal order: when the            *)
(* constructor has completed or thrown, the run on the same declarations   *)
(* in any other order fails if and only if this one did, and if they       *)
(* complete they assign the same name to every enum node and produce the   *)
(* same map from names to value sets.                                      *)
(***************************************************************************)
C10_OrderIndependent ==
  (Built \/ cerror # "") =>
    \A other \in orderings(entry.schemas) : sameOutcome(converterHere, converterOn(other))


\* The values of the top-level enum declaration of this name.
globalEnumValues(ts, extractedEnumName) ==
  ts[CHOOSE i \in 1..Len(ts) :
       ts[i].type.type = "enum" /\ ts[i].name = extractedEnumName].type.values

(***************************************************************************)
(* C11. When the naming resolver has completed, an inline enum that is a   *)
(* field of an object and whose candidate name is the name of a top-level  *)
(* enum has no synthesized name if the two value sets are equal, and       *)
(* holds a name longer than the candidate if they differ.                  *)
(***************************************************************************)
C11_UnifiedIffEqualSets ==
  Built =>
    \A n \in inlineNodes(types) :
      (n.reached /\ globalEnum(types, pascalCase(n.name))) =>
        IF valueSet(n.values) = valueSet(globalEnumValues(types, pascalCase(n.name)))
        THEN ~named(n)
        ELSE named(n) /\ Len(n.extractedEnumName) > Len(pascalCase(n.name))


(***************************************************************************)
(* The documents the request-body and response runs are checked on: one    *)
(* route with one operation, whose descriptor combines a parameter list,   *)
(* a request body and a responses section.                                 *)
(***************************************************************************)
FieldF == <<"f">>
FieldG == <<"g", "_">>

BodyParameterLists ==
  {<<>>,
   <<[in |-> "query", name |-> <<"q">>, required |-> FALSE]>>,
   <<[in |-> "path", name |-> <<"i">>, required |-> TRUE],
     [in |-> "query", name |-> <<"q">>, required |-> TRUE]>>}

\* Body schemas that convert to an object, an array, a map, a ref, a union
\* and a composition.
BodySchemas ==
  {[type |-> "object",
    properties |-> <<<<FieldG, [type |-> "boolean"]>>, <<FieldF, StringSchema>>>>,
    required |-> <<FieldG>>],
   [type |-> "array", items |-> StringSchema],
   [type |-> "object", additionalProperties |-> StringSchema],
   RefSchema(RefStr(<<>>, NameA)),
   [type |-> "object", oneOf |-> <<RefSchema(RefStr(<<>>, NameA))>>,
    discriminator |-> [propertyName |-> FieldF]],
   [type |-> "object", allOf |-> <<RefSchema(RefStr(<<>>, NameA))>>,
    properties |-> <<<<FieldF, StringSchema>>>>]}

\* No requestBody, one without a JSON schema, one per body schema.
RequestBodies ==
  {<<>>, [requestBody |-> [description |-> "empty"]]}
    \cup {[requestBody |-> [schema |-> b]] : b \in BodySchemas}

\* No responses section, one without 200, a 200 without a JSON schema, a
\* 200 with one.
ResponseSections ==
  {<<>>,
   [responses |-> ("404" :> [schema |-> StringSchema])],
   [responses |-> ("200" :> [description |-> "ok"])],
   [responses |-> ("200" :> [schema |-> RefSchema(RefStr(FileA, NameA))])]}

ParameterSections == {<<>>} \cup {[parameters |-> ps] : ps \in BodyParameterLists}

OperationInfos ==
  {p @@ b @@ r : p \in ParameterSections, b \in RequestBodies, r \in ResponseSections}

BodyTemplates == {<<"/", "x">>, <<"/", "{", "i", "}">>}

InitBodyDocs ==
  /\ entry \in [schemas : {<<<<NameA, StringSchema>>>>},
                paths : {<<[path |-> t, methods |-> <<[method |-> mn, info |-> i]>>]>> :
                           t \in BodyTemplates, mn \in MethodNames, i \in OperationInfos}]
  /\ disk = (FileA :> FileOf(<<<<NameA, StringSchema>>>>)) @@ (FileB :> NoFile)

BodyInit == InitBodyDocs /\ InitRun /\ DefaultOptions

\* parseOpenapi on the request-body and response documents.
BodySpec == BodyInit /\ [][Next]_vars

\* The one operation of these documents, and whether the run has dealt
\* with it: appended it or thrown while processing it.
theMethod == entry.paths[1].methods[1]

methodThrew == pc = "routes" /\ methodIdx > 0 /\ error # ""

has200(info) == Has(info, "responses") /\ Has(info.responses, "200")

(***************************************************************************)
(* C12. An operation that was appended has a 200 response, and its         *)
(* resultType is void when that response carries no JSON schema; a run     *)
(* that failed with the no-success-response error was processing an        *)
(* operation without a 200 response.                                       *)
(***************************************************************************)
C12_NoSuccessRejected ==
  /\ apiMethods # <<>> =>
       /\ has200(theMethod.info)
       /\ ~Has(theMethod.info.responses["200"], "schema")
            => apiMethods[1].resultType = [type |-> "void"]
  /\ (methodThrew /\ error = "Api without success result") => ~has200(theMethod.info)


\* The parameters the descriptor declares: each becomes one parameter.
declaredCount(info) == IF Has(info, "parameters") THEN Len(info.parameters) ELSE 0

\* The conversion of the body schema of a descriptor.
finalOf(info) == convertType(info.requestBody.schema, <<>>, EmptyEnv).type

bodyPlaces(parameters) == {i \in 1..Len(parameters) : parameters[i].place = "BODY"}

(***************************************************************************)
(* C16. For an appended operation with a request payload: if the converted *)
(* body type is object, the parameters are the path and query parameters   *)
(* followed by one body parameter per field, in field order, with the      *)
(* field's name, type and required flag, and flatTypes is empty; for any   *)
(* other converted shape there is no body parameter and flatTypes holds    *)
(* the converted type alone.  Without a payload there is neither.          *)
(***************************************************************************)
C16_BodyFlattening ==
  apiMethods # <<>> =>
    LET info == theMethod.info
        ps == apiMethods[1].params.parameters
        flatTypes == apiMethods[1].params.flatTypes
        n == declaredCount(info)
    IN IF ~Has(info, "requestBody")
       THEN bodyPlaces(ps) = {} /\ flatTypes = <<>>
       ELSE IF finalOf(info).type = "object"
       THEN /\ Len(ps) = n + Len(finalOf(info).fields)
            /\ bodyPlaces(ps) = (n + 1)..Len(ps)
            /\ \A j \in 1..Len(finalOf(info).fields) :
                 ps[n + j] = [place |-> "BODY",
                              name |-> finalOf(info).fields[j].name,
                              type |-> finalOf(info).fields[j].type,
                              required |-> finalOf(info).fields[j].required]
            /\ flatTypes = <<>>
       ELSE /\ Len(ps) = n
            /\ bodyPlaces(ps) = {}
            /\ flatTypes = <<finalOf(info)>>

\* An operation with a path and a query parameter and an object body of two
\* fields was appended.
C16_Witness ==
  /\ apiMethods # <<>>
  /\ Has(theMethod.info, "requestBody")
  /\ declaredCount(theMethod.info) = 2
  /\ finalOf(theMethod.info).type = "object"
  /\ Len(apiMethods[1].params.parameters) = 4


getWithBody == theMethod.method = "get" /\ Has(theMethod.info, "requestBody")

GetWithBodyError == "Requested body in GET request"

MaxNameLen == 3

NameAlphabet == {"a", "B", "_", "-", "+"}

Identifiers == SeqsUpTo(NameAlphabet, MaxNameLen)

NameInit ==
  /\ entry \in [schemas : {<<<<s, StringSchema>>>> : s \in Identifiers}, paths : {<<>>}]
  /\ disk = (FileA :> NoFile) @@ (FileB :> NoFile)
  /\ InitRun
  /\ DefaultOptions

NameNext ==
  \/ Start
  \/ EndRoutes
  \/ EndLoad
  \/ Return

\* parseOpenapi on the one-schema documents: fitModels normalizes the name.
NameSpec == NameInit /\ [][NameNext]_vars

(***************************************************************************)
(* C19. normalizeName is idempotent: the name fitModels registered for a   *)
(* schema, which is normalizeName of the schema's identifier, is left      *)
(* unchanged by normalizeName.                                             *)
(***************************************************************************)
C19_NormalizeIdempotent ==
  \A i \in 1..Len(types) :
    /\ types[i].name = normalizeName(entry.schemas[i][1])
    /\ normalizeName(types[i].name) = types[i].name

\* A registered name that normalization has shortened and not emptied.
C19_Witness ==
  /\ types # <<>>
  /\ types[1].name # entry.schemas[1][1]
  /\ types[1].name # <<>>

(***************************************************************************)
(* loadTypes on the reference strings of the documents.                    *)
(***************************************************************************)
RefInputs ==
  {RefStr(f, n) : f \in {<<>>} \cup ExtFiles, n \in {NameA, NameB, NameA_}}
    \cup {<<" ">> \o RefStr(FileA, NameA) \o <<" ">>}
    \cup {f \o <<"#", "/definitions/", "A">> : f \in {<<>>, FileA}}
    \cup {NameA}

\* The part of a reference before its first '#'.
filePartOf(ref) == split(trim(ref), "#")[1]

\* The part of a reference after its first '#', empty when it has none.
fragmentOf(ref) ==
  IF Len(split(trim(ref), "#")) < 2 THEN <<>> ELSE split(trim(ref), "#")[2]

\* The schema key a fragment '/components/schemas/<key>' addresses.
schemaKeyOf(ref) == Tail(fragmentOf(ref))

loadTypesContract(ref, fileName, out) ==
  IF ~startsWith(fragmentOf(ref), SchemasPrefix)
  THEN /\ out.err = "Invalid ref link"
       /\ out.env.loadFiles = loadFiles
       /\ out.env.notLoadedTypes = notLoadedTypes
       /\ out.env.types = types
  ELSE /\ out.err = ""
       /\ out.type =
            [type |-> "ref",
             ref |-> fullModelName(IF filePartOf(ref) = <<>> THEN fileName
                                   ELSE filePartOf(ref),
                                   schemaKeyOf(ref))]

\* C20: loadTypes on a reference whose fragment does not start with
\* '/components/schemas/' fails with 'Invalid ref link' and leaves the load
\* queue, the pending set and the registry as they were; on a well-formed
\* reference it returns a ref node whose key is the key fitModels builds for
\* the addressed schema of the addressed file (the current file when the file
\* part is empty).
C20_LoadTypesContract ==
  \A ref \in RefInputs, fileName \in {<<>>} \cup ExtFiles :
    loadTypesContract(ref, fileName, loadTypes(ref, fileName, Env))

(***************************************************************************)
(* Converter.ts: emission.  cv is the converter [types, useEnums,          *)
(* namespace, inlineEnums]; toTs returns [err, text, used], used being     *)
(* usedTypes after the call.  Text is a sequence of tokens whose           *)
(* concatenation is the string the code builds.                            *)
(***************************************************************************)
Emitted(text, used) == [err |-> "", text |-> text, used |-> used]
EmitThrow(msg, used) == [err |-> msg, text |-> <<>>, used |-> used]

Found(decl) == [err |-> "", found |-> TRUE, decl |-> decl]
NotFound == [err |-> "", found |-> FALSE, decl |-> NoObject]
LookupThrow(msg) == [err |-> msg, found |-> FALSE, decl |-> NoObject]

\* Lines 118-130.
unrefType(cv, type) ==
  IF type.type # "ref" THEN LookupThrow("Not a ref")
  ELSE IF ~typesHas(cv.types, type.ref) THEN LookupThrow("Type is not found")
  ELSE Found(typesGet(cv.types, type.ref))

\* Lines 132-138.
unref(cv, type) ==
  IF type.type.type = "ref" THEN unrefType(cv, type.type) ELSE Found(type)

\* type.fields.find(({name}) => name === fieldName), line 153.
findField(fields, fieldName) ==
  LET found == {i \in 1..Len(fields) : fields[i].name = fieldName}
  IN IF found = {} THEN 0 ELSE CHOOSE i \in found : \A j \in found : i <= j

RECURSIVE getFieldTypeByName(_, _, _, _)
RECURSIVE fieldInParts(_, _, _, _, _)

\* Lines 164-168: the lookup in part i returned r.
partLooked(cv, parts, i, fieldName, chain, r) ==
  IF r.err # "" \/ r.found THEN r
  ELSE fieldInParts(cv, parts, i - 1, fieldName, chain)

\* Lines 163-171: the parts from the last to the first.
fieldInParts(cv, parts, i, fieldName, chain) ==
  IF i = 0
  THEN LookupThrow("Field is not found")
  ELSE partLooked(cv, parts, i, fieldName, chain,
                  getFieldTypeByName(cv, parts[i], fieldName, chain))

\* Lines 140-178.  chain holds the references the lookup is following: the
\* function has no state, so a lookup that comes back to a reference of its
\* chain repeats the same calls without end, until the engine ends it with
\* a RangeError ('Maximum call stack size exceeded').
getFieldTypeByName(cv, type, fieldName, chain) ==
  CASE type.type = "ref" ->
         IF ~typesHas(cv.types, type.ref) THEN LookupThrow("No type by ref")
         ELSE IF type.ref \in chain THEN LookupThrow("RangeError")
         ELSE getFieldTypeByName(cv, typesGet(cv.types, type.ref).type, fieldName,
                                 chain \cup {type.ref})
    [] type.type = "object" ->
         IF findField(type.fields, fieldName) = 0
         THEN NotFound
         ELSE unref(cv, type.fields[findField(type.fields, fieldName)])
    [] type.type = "object-composition" ->
         fieldInParts(cv, type.composition, Len(type.composition), fieldName, chain)
    [] OTHER -> LookupThrow("Unknown type")

\* '  '.repeat(depth)
RECURSIVE repeat(_, _)
repeat(s, n) == IF n = 0 THEN <<>> ELSE s \o repeat(s, n - 1)

\* Line 183.
modificators(readonly) == IF readonly THEN <<"readonly ">> ELSE <<>>

\* Lines 192-198.
objectText(fieldTexts, depth, readonly) ==
  modificators(readonly) \o <<"{", "\n">> \o repeat(<<"  ">>, depth + 1)
    \o join(fieldTexts, <<";", "\n">> \o repeat(<<"  ">>, depth + 1))
    \o <<";", "\n">> \o repeat(<<"  ">>, depth) \o <<"}">>

\* Line 195.
fieldText(field, typeText) ==
  field.name \o (IF field.required THEN <<>> ELSE <<"?">>) \o <<": ">> \o typeText

\* Line 248.
variantText(serializedType, propertyName, value) ==
  <<"Omit<">> \o serializedType \o <<", '">> \o propertyName \o <<"'> & { ">>
    \o propertyName \o <<": ">> \o value \o <<" }">>

\* Line 245.
quoted(propertyValue) == <<"\"">> \o propertyValue \o <<"\"">>

\* mapping.find(([, ref]) => ref === innerType.ref), line 216.
findMapping(mapping, ref) ==
  LET found == {i \in 1..Len(mapping) : mapping[i][2] = ref}
  IN IF found = {} THEN 0 ELSE CHOOSE i \in found : \A j \in found : i <= j

\* Lines 228-233.
discriminatorTypeOf(cv, type, innerType) ==
  IF type.discriminatorType # NoObject
  THEN unrefType(cv, type.discriminatorType)
  ELSE getFieldTypeByName(cv, typesGet(cv.types, innerType.ref).type,
                          type.discriminator.propertyName, {})

\* Lines 235-248, d being the discriminator type found.
valued(type, serializedType, propertyValue, d, used) ==
  IF d.err # "" THEN EmitThrow(d.err, used)
  ELSE IF d.found /\ d.decl.type.type = "enum"
  THEN IF propertyValue \notin Range(d.decl.type.values)
       THEN EmitThrow("No enum value", used)
       ELSE Emitted(variantText(serializedType, type.discriminator.propertyName,
                                d.decl.name \o <<".">> \o propertyValue), used)
  ELSE Emitted(variantText(serializedType, type.discriminator.propertyName,
                           quoted(propertyValue)), used)

\* Lines 211-251: the variant of the member innerType, r being toTs(innerType).
variantOf(cv, type, innerType, r) ==
  IF r.err # "" THEN r
  ELSE IF ~Has(type.discriminator, "mapping") THEN r
  ELSE IF innerType.type # "ref" THEN EmitThrow("No ref type with mapping", r.used)
  ELSE IF findMapping(type.discriminator.mapping, innerType.ref) = 0
  THEN EmitThrow("Mapping ref type is not matched", r.used)
  ELSE IF cv.useEnums
  THEN valued(type, r.text,
              type.discriminator.mapping[findMapping(type.discriminator.mapping, innerType.ref)][1],
              discriminatorTypeOf(cv, type, innerType), r.used)
  ELSE Emitted(variantText(r.text, type.discriminator.propertyName,
                 quoted(type.discriminator.mapping[findMapping(type.discriminator.mapping,
                                                               innerType.ref)][1])),
               r.used)

RECURSIVE toTs(_, _, _, _, _)
RECURSIVE fieldsToTs(_, _, _, _, _, _)
RECURSIVE partsToTs(_, _, _, _, _, _)
RECURSIVE variantsToTs(_, _, _, _, _, _)

\* The texts mapped so far (acc) with what is still to map.
mapped(texts, used) == [err |-> "", texts |-> texts, used |-> used]
mapThrow(r) == [err |-> r.err, texts |-> <<>>, used |-> r.used]

fieldDone(cv, fields, i, depth, acc, r) ==
  IF r.err # "" THEN mapThrow(r)
  ELSE fieldsToTs(cv, fields, i + 1, depth, r.used, Append(acc, fieldText(fields[i], r.text)))

\* type.fields.map(...), lines 193-196.
fieldsToTs(cv, fields, i, depth, used, acc) ==
  IF i > Len(fields) THEN mapped(acc, used)
  ELSE fieldDone(cv, fields, i, depth, acc, toTs(cv, fields[i].type, depth + 1, FALSE, used))

partDone(cv, parts, i, depth, acc, r) ==
  IF r.err # "" THEN mapThrow(r)
  ELSE partsToTs(cv, parts, i + 1, depth, r.used, Append(acc, r.text))

\* type.composition.map(...), line 201.
partsToTs(cv, parts, i, depth, used, acc) ==
  IF i > Len(parts) THEN mapped(acc, used)
  ELSE partDone(cv, parts, i, depth, acc, toTs(cv, parts[i], depth, FALSE, used))

variantDone(cv, type, i, depth, acc, r) ==
  IF r.err # "" THEN mapThrow(r)
  ELSE variantsToTs(cv, type, i + 1, depth, r.used, Append(acc, r.text))

\* type.union.map(...), lines 207-252.
variantsToTs(cv, type, i, depth, used, acc) ==
  IF i > Len(type.union) THEN mapped(acc, used)
  ELSE variantDone(cv, type, i, depth, acc,
                   variantOf(cv, type, type.union[i],
                             toTs(cv, type.union[i], depth, FALSE, used)))

objectDone(depth, readonly, m) ==
  IF m.err # "" THEN EmitThrow(m.err, m.used)
  ELSE Emitted(objectText(m.texts, depth, readonly), m.used)

compositionDone(m) ==
  IF m.err # "" THEN EmitThrow(m.err, m.used)
  ELSE Emitted(join(m.texts, <<" & ">>), m.used)

\* Lines 255-268, variants being the joined variants and f toTs(fields).
withFields(variants, f) ==
  IF f.err # "" THEN f
  ELSE Emitted(f.text \o <<" & (">> \o variants \o <<")">>, f.used)

\* Lines 258-261.
fieldsWithout(fieldsObject, propertyName) ==
  [fieldsObject EXCEPT !.fields = SelectSeq(@, LAMBDA field : field.name # propertyName)]

unionDone(cv, type, depth, m) ==
  IF m.err # "" THEN EmitThrow(m.err, m.used)
  ELSE IF type.fieldsObject # NoObject
  THEN withFields(join(m.texts, <<" | ">>),
                  toTs(cv, fieldsWithout(type.fieldsObject, type.discriminator.propertyName),
                       depth, FALSE, m.used))
  ELSE Emitted(<<"(">> \o join(m.texts, <<" | ">>) \o <<")">>, m.used)

elementDone(before, after, r) ==
  IF r.err # "" THEN r ELSE Emitted(before \o r.text \o after, r.used)

\* Line 296.
valuesText(values) == join([i \in 1..Len(values) |-> <<"'">> \o values[i] \o <<"'">>], <<" | ">>)

\* Line 307.
refText(cv, typeDecl) ==
  (IF cv.namespace # <<>> THEN cv.namespace \o <<".">> ELSE <<>>) \o typeDecl.name

\* Lines 180-315.
toTs(cv, type, depth, readonly, used) ==
  CASE type.type \in {"string", "number", "boolean", "void"} -> Emitted(<<type.type>>, used)
    [] type.type = "object" ->
         objectDone(depth, readonly, fieldsToTs(cv, type.fields, 1, depth, used, <<>>))
    [] type.type = "object-composition" ->
         compositionDone(partsToTs(cv, type.composition, 1, depth, used, <<>>))
    [] type.type = "union" ->
         IF type.discriminator = NoObject
         THEN EmitThrow("TypeError", used)
         ELSE unionDone(cv, type, depth, variantsToTs(cv, type, 1, depth, used, <<>>))
    [] type.type = "map" ->
         elementDone(IF readonly THEN <<"Readonly<", "Record<string, ">> ELSE <<"Record<string, ">>,
                     IF readonly THEN <<">", ">">> ELSE <<">">>,
                     toTs(cv, type.elementType, depth, FALSE, used))
    [] type.type = "free-form-map" ->
         Emitted(IF readonly THEN <<"Readonly<Record<string, unknown>>">>
                 ELSE <<"Record<string, unknown>">>, used)
    [] type.type = "array" ->
         elementDone(modificators(readonly), <<"[]">>,
                     toTs(cv, type.elementType, depth, FALSE, used))
    [] type.type = "enum" ->
         IF cv.useEnums /\ type.extractedEnumName # <<>>
         THEN Emitted(type.extractedEnumName, used \cup {type.extractedEnumName})
         ELSE Emitted(valuesText(type.values), used)
    [] type.type = "ref" ->
         IF ~typesHas(cv.types, type.ref)
         THEN EmitThrow("Type has not found", used)
         ELSE Emitted(refText(cv, typesGet(cv.types, type.ref)),
                      used \cup {typesGet(cv.types, type.ref).name})
    [] OTHER -> Emitted(<<"never">>, used)

\* String.prototype.localeCompare on names of letters: alphabetical without
\* regard to case, then lower case before upper case at the first difference.
RECURSIVE caseCompare(_, _)
caseCompare(a, b) ==
  IF a = <<>> \/ b = <<>> THEN 0
  ELSE IF a[1] = b[1] THEN caseCompare(Tail(a), Tail(b))
  ELSE IF a[1] = lowerChar(a[1]) THEN -1 ELSE 1

compareNames(a, b) ==
  IF localeCompare(toLower(a), toLower(b)) # 0
  THEN localeCompare(toLower(a), toLower(b))
  ELSE caseCompare(a, b)

\* Array.prototype.sort by name: a stable insertion sort.
RECURSIVE insertByName(_, _)
insertByName(sorted, v) ==
  IF sorted = <<>> THEN <<v>>
  ELSE IF compareNames(v.name, sorted[1].name) < 0 THEN <<v>> \o sorted
  ELSE <<sorted[1]>> \o insertByName(Tail(sorted), v)

RECURSIVE sortByName(_)
sortByName(decls) ==
  IF decls = <<>> THEN <<>>
  ELSE insertByName(sortByName(SubSeq(decls, 1, Len(decls) - 1)), decls[Len(decls)])

\* [...this.inlineEnums.entries()], line 330; the sort of line 340 fixes the
\* order, the names being distinct.
RECURSIVE mapEntries(_)
mapEntries(map) ==
  IF DOMAIN map = {} THEN <<>>
  ELSE LET k == CHOOSE x \in DOMAIN map : TRUE
       IN <<[name |-> k, values |-> map[k]]>> \o mapEntries(mapDelete(map, k))

\* Lines 317-319.
generateEnum(name, values) ==
  <<"export enum ">> \o name \o <<" {", "\n">>
    \o join([i \in 1..Len(values) |->
               <<"  ">> \o values[i].key \o <<" = '">> \o values[i].value \o <<"',">>],
            <<"\n">>)
    \o <<"\n", "}">>

\* Lines 332-337.
topLevelEnums(sortedTypes) ==
  LET enums == SelectSeq(sortedTypes, LAMBDA info : info.type.type = "enum")
  IN [i \in 1..Len(enums) |->
        [name |-> enums[i].name, values |-> fulfillEnumValues(enums[i].type.values)]]

\* Lines 327-342.
enumDeclarations(cv, sortedTypes) ==
  IF cv.useEnums
  THEN LET sorted == sortByName(mapEntries(cv.inlineEnums) \o topLevelEnums(sortedTypes))
       IN [i \in 1..Len(sorted) |-> generateEnum(sorted[i].name, sorted[i].values)]
  ELSE <<>>

\* Lines 324-328.
realTypes(cv, sortedTypes) ==
  IF cv.useEnums
  THEN SelectSeq(sortedTypes, LAMBDA info : info.type.type # "enum")
  ELSE sortedTypes

RECURSIVE typesToTs(_, _, _, _, _)

typeDone(cv, decls, i, acc, r) ==
  IF r.err # "" THEN mapThrow(r)
  ELSE typesToTs(cv, decls, i + 1, r.used,
                 Append(acc, <<"export type ">> \o decls[i].name \o <<" = ">> \o r.text \o <<";">>))

\* realTypes.map(...), line 344.
typesToTs(cv, decls, i, used, acc) ==
  IF i > Len(decls) THEN mapped(acc, used)
  ELSE typeDone(cv, decls, i, acc, toTs(cv, decls[i].type, 0, FALSE, used))

definitionsDone(enums, m) ==
  IF m.err # "" THEN m ELSE mapped(enums \o m.texts, m.used)

\* Lines 321-347.
extractDefinitions(cv, used) ==
  definitionsDone(enumDeclarations(cv, sortByName(cv.types)),
                  typesToTs(cv, realTypes(cv, sortByName(cv.types)), 1, used, <<>>))

\* The converter as it stands.
thisConverter ==
  [types |-> types, useEnums |-> useEnums, namespace |-> namespace,
   inlineEnums |-> inlineEnums]

\* The state after extractDefinitions returned or threw r.
extracted(r) ==
  /\ cerror' = r.err
  /\ usedTypes' = r.used
  /\ definitions' = r.texts
  /\ cpc' = IF r.err = "" THEN "emitted" ELSE "built"

\* converter.extractDefinitions() on the converter built.
ExtractDefinitions ==
  /\ cpc = "built"
  /\ cerror = ""
  /\ extracted(extractDefinitions(thisConverter, usedTypes))
  /\ UNCHANGED <<parserVars, inlineEnums, duplicates, passes, useEnums, namespace>>

(***************************************************************************)
(* The documents the emission runs are checked on: the schemas A and B     *)
(* (objects, aliases or compositions, referring to each other) and a       *)
(* union or a composition over them, declared in the entry document or in  *)
(* the external file a, which the entry document then refers to.           *)
(***************************************************************************)
NameU == <<"U">>
NameC == <<"C">>
Root == <<"R", "o", "o", "t">>
kind == <<"k", "i", "n", "d">>
extra == <<"e", "x", "t", "r", "a">>
Namespaces == {<<>>, <<"n", "s">>}

LocalA == RefSchema(RefStr(<<>>, NameA))
LocalB == RefSchema(RefStr(<<>>, NameB))

SchemasA ==
  {[type |-> "object",
    properties |-> <<<<kind, StringSchema>>, <<Str("b"), LocalB>>>>,
    required |-> <<kind>>],
   [type |-> "object", properties |-> <<<<kind, EnumOf(ValuesAB)>>>>],
   [type |-> "object", properties |-> <<<<kind, EnumOf(ValuesB)>>>>],
   LocalB,
   [allOf |-> <<LocalB>>, properties |-> <<<<Str("x"), [type |-> "number"]>>>>]}

SchemasB ==
  {[type |-> "object",
    properties |-> <<<<kind, StringSchema>>, <<Str("a"), LocalA>>>>,
    required |-> <<kind>>],
   LocalA,
   [allOf |-> <<LocalA>>, properties |-> <<<<Str("y"), [type |-> "number"]>>>>]}

MappingAB == <<<<Str("a"), RefStr(<<>>, NameA)>>, <<Str("b"), RefStr(<<>>, NameB)>>>>
MappingA == <<<<Str("a"), RefStr(<<>>, NameA)>>>>

Unions ==
  {[oneOf |-> <<LocalA, LocalB>>,
    discriminator |-> [propertyName |-> kind, mapping |-> MappingAB]],
   [type |-> "object", oneOf |-> <<LocalA, LocalB>>,
    discriminator |-> [propertyName |-> kind, mapping |-> MappingAB]],
   [type |-> "object", oneOf |-> <<LocalA>>,
    discriminator |-> [propertyName |-> kind, mapping |-> MappingAB]],
   [type |-> "object", oneOf |-> <<LocalA, LocalB>>,
    discriminator |-> [propertyName |-> kind, mapping |-> MappingA]],
   [type |-> "object", oneOf |-> <<LocalA, LocalB>>,
    discriminator |-> [propertyName |-> kind]],
   [oneOf |-> <<LocalA, LocalB>>,
    properties |-> <<<<kind, StringSchema>>, <<Str("z"), [type |-> "number"]>>>>,
    discriminator |-> [propertyName |-> kind, mapping |-> MappingAB]]}

ExtraObject == [type |-> "object", properties |-> <<<<extra, [type |-> "boolean"]>>>>]

Compositions ==
  {[allOf |-> <<LocalA, ExtraObject>>],
   [type |-> "object", allOf |-> <<LocalA, ExtraObject>>],
   [allOf |-> <<LocalA, LocalB>>, properties |-> <<<<extra, [type |-> "boolean"]>>>>],
   [type |-> "object", allOf |-> <<LocalB, LocalA>>,
    properties |-> <<<<extra, [type |-> "boolean"]>>>>]}

EmitDocs ==
  {<<<<NameA, a>>, <<NameB, b>>, <<NameU, u>>>> : a \in SchemasA, b \in SchemasB, u \in Unions}
    \cup {<<<<NameA, a>>, <<NameB, b>>, <<NameC, c>>>> :
            a \in SchemasA, b \in SchemasB, c \in Compositions}

InitEmitDocs ==
  \E doc \in EmitDocs :
    \/ /\ entry = [schemas |-> doc, paths |-> <<>>]
       /\ disk = (FileA :> NoFile) @@ (FileB :> NoFile)
    \/ /\ entry = [schemas |-> <<<<Root, RefSchema(RefStr(FileA, doc[3][1]))>>>>,
                   paths |-> <<>>]
       /\ disk = (FileA :> FileOf(doc)) @@ (FileB :> NoFile)

EmitInit ==
  /\ InitEmitDocs
  /\ InitRun
  /\ useEnums \in BOOLEAN
  /\ namespace \in Namespaces

EmitNext ==
  \/ Start
  \/ EndRoutes
  \/ LoadFile
  \/ EndLoad
  \/ Return
  \/ NewConverter
  \/ Pass
  \/ ExtractDefinitions

\* parseOpenapi, new Converter and extractDefinitions on the emission documents.
EmitSpec == EmitInit /\ [][EmitNext]_vars

\* The document that declares A, B and the union or composition, and the
\* file it is.
docFile == IF disk[FileA].exists THEN FileA ELSE <<>>
docSchemas == IF disk[FileA].exists THEN disk[FileA].schemas ELSE entry.schemas

\* The YAML node the document declares under a schema key.
nodeOf(key) ==
  docSchemas[CHOOSE i \in 1..Len(docSchemas) : docSchemas[i][1] = key][2]

\* The declaration fitModels registered for a schema key of the document.
declOf(key) == typesGet(types, fullModelName(docFile, key))

\* The line extractDefinitions emits for a declaration.
typeLine(name, text) == <<"export type ">> \o name \o <<" = ">> \o text \o <<";">>

third == docSchemas[3]

\* The reference strings of a list of `$ref` nodes.
refStrings(nodes) == {nodes[i]["$ref"] : i \in 1..Len(nodes)}

\* The schema keys a list of local `$ref` nodes names.
memberKeys(nodes) == [i \in 1..Len(nodes) |-> Tail(fragmentOf(nodes[i]["$ref"]))]

isMappedUnion(node) ==
  /\ Has(node, "oneOf")
  /\ Has(node, "discriminator")
  /\ Has(node.discriminator, "mapping")
  /\ \A i \in 1..Len(node.oneOf) : Has(node.oneOf[i], "$ref")

\* A and B are objects that declare the tag field themselves.
membersArePlain ==
  \A key \in {NameA, NameB} :
    /\ Has(nodeOf(key), "type")
    /\ nodeOf(key).type = "object"
    /\ \E i \in 1..Len(nodeOf(key).properties) : nodeOf(key).properties[i][1] = kind

\* The tag the mapping gives a reference string.
tagOf(mapping, ref) == mapping[findMapping(mapping, ref)][1]

\* A member's emitted form with the tag field removed and pinned to the tag.
pinnedMember(node, i) ==
  variantText(refText(thisConverter, [name |-> normalizeName(memberKeys(node.oneOf)[i])]),
              node.discriminator.propertyName,
              quoted(tagOf(node.discriminator.mapping, node.oneOf[i]["$ref"])))

\* C13: a union declared as {oneOf: [refs], discriminator: {propertyName,
\* mapping}} without a type key, its mapping values being the reference
\* strings of its members, is converted and emitted without an error, and
\* its emitted form is, member by member, the member's type with the tag
\* field omitted and re-added pinned to the member's tag literal, in the
\* entry document as in an external file.
C13_UnionVariantsPinned ==
  (/\ isMappedUnion(third[2])
   /\ ~Has(third[2], "type")
   /\ ~Has(third[2], "properties")
   /\ {third[2].discriminator.mapping[i][2] :
         i \in 1..Len(third[2].discriminator.mapping)} = refStrings(third[2].oneOf)
   /\ membersArePlain)
  =>
  /\ error = ""
  /\ cerror = ""
  /\ (cpc = "emitted" /\ ~useEnums) =>
       typeLine(third[1],
                <<"(">> \o join([i \in 1..Len(third[2].oneOf) |-> pinnedMember(third[2], i)],
                                <<" | ">>) \o <<")">>)
         \in Range(definitions)

\* The parts the claim gives a composition: the conversions of the allOf
\* entries in their order, then the object of the node's own properties.
expectedParts(node) ==
  [i \in 1..Len(node.allOf) |-> convertType(node.allOf[i], docFile, EmptyEnv).type]
    \o (IF Has(node, "properties")
        THEN <<convertType([type |-> "object", properties |-> node.properties],
                           docFile, EmptyEnv).type>>
        ELSE <<>>)

\* C14: a node carrying allOf, with or without `type: object`, converts to
\* an object-composition of the conversions of the allOf entries in their
\* order, followed by the object of its own properties when it declares
\* any, and is emitted as the parts' emitted forms joined by ' & '.
C14_CompositionParts ==
  Has(third[2], "allOf") =>
    /\ error = ""
    /\ cerror = ""
    /\ pc = "done" =>
         declOf(third[1]).type =
           [type |-> "object-composition", composition |-> expectedParts(third[2])]
    /\ cpc = "emitted" =>
         typeLine(third[1],
                  join([i \in 1..Len(expectedParts(third[2])) |->
                          toTs(thisConverter, expectedParts(third[2])[i], 0, FALSE, {}).text],
                       <<" & ">>))
           \in Range(definitions)

\* The union's mapping has a tag whose reference names no member.
hasDanglingTag(node) ==
  /\ isMappedUnion(node)
  /\ \E i \in 1..Len(node.discriminator.mapping) :
       node.discriminator.mapping[i][2] \notin refStrings(node.oneOf)

\* C15: emitting a union whose mapping contains a tag that names a schema
\* absent from the union's members fails with 'Mapping ref type is not
\* matched'.
C15_DanglingTagRejected ==
  (hasDanglingTag(third[2]) /\ membersArePlain /\ cpc \in {"built", "emitted"}) =>
    /\ cpc # "emitted"
    /\ cerror \in {"", "Mapping ref type is not matched"}

\* The reference strings a YAML node holds.
RECURSIVE refsOf(_)
RECURSIVE refsOfAll(_)
refsOfAll(nodes) ==
  IF nodes = <<>> THEN {} ELSE refsOf(nodes[1]) \cup refsOfAll(Tail(nodes))

refsOf(node) ==
  (IF Has(node, "$ref") THEN {node["$ref"]} ELSE {})
    \cup (IF Has(node, "properties")
          THEN refsOfAll([i \in 1..Len(node.properties) |-> node.properties[i][2]])
          ELSE {})
    \cup (IF Has(node, "allOf") THEN refsOfAll(node.allOf) ELSE {})
    \cup (IF Has(node, "oneOf") THEN refsOfAll(node.oneOf) ELSE {})
    \cup (IF Has(node, "items") THEN refsOf(node.items) ELSE {})

\* A references B and B references A.
cyclic ==
  /\ RefStr(<<>>, NameB) \in refsOf(nodeOf(NameA))
  /\ RefStr(<<>>, NameA) \in refsOf(nodeOf(NameB))

\* C17: on a document whose declarations A and B reference each other, the
\* constructor's loop ends, no lookup runs away through the cycle, and a
\* declaration that is a reference is emitted as the name of its target,
\* with and without named enums.
C17_CyclesTerminate ==
  cyclic =>
    /\ passes < MaxPasses
    /\ cerror # "RangeError"
    /\ cpc = "emitted" =>
         \A i \in 1..Len(types) :
           types[i].type.type = "ref" =>
             typeLine(types[i].name,
                      refText(thisConverter, typesGet(types, types[i].type.ref)))
               \in Range(definitions)

(***************************************************************************)
(* C21. When the naming resolver has completed, two inline enums that are  *)
(* fields of objects, have the same candidate name N (long enough, not     *)
(* the word Type, not the name of a declaration) and different sets of     *)
(* values both hold a name longer than N, and N is not a key of            *)
(* inlineEnums, whichever of the two was traversed first.                  *)
(***************************************************************************)
C21_BothEvicted ==
  Built =>
    \A n1, n2 \in inlineNodes(types) :
      ( /\ n1.reached /\ n2.reached
        /\ pascalCase(n1.name) = pascalCase(n2.name)
        /\ candidateFree(types, n1)
        /\ valueSet(n1.values) # valueSet(n2.values) )
        => /\ Len(n1.extractedEnumName) > Len(pascalCase(n1.name))
           /\ Len(n2.extractedEnumName) > Len(pascalCase(n2.name))
           /\ pascalCase(n1.name) \notin DOMAIN inlineEnums

(***************************************************************************)
(* The constructor's loop with its iterations eventually taken: the loop   *)
(* is synchronous code, a loop that has not ended runs its next pass.  The *)
(* documents are the enum documents of at most MaxFixSchemas schemas.      *)
(***************************************************************************)
MaxFixSchemas == 2

FixInit ==
  /\ entry \in [schemas : {d \in EnumDocs : Len(d) <= MaxFixSchemas}, paths : {<<>>}]
  /\ disk = (FileA :> NoFile) @@ (FileB :> NoFile)
  /\ InitRun
  /\ DefaultOptions

\* An iteration of the while loop, by what it leaves in cpc, cerror and
\* passes.
iteration ==
  /\ cpc = "loop"
  /\ cerror = ""
  /\ cpc' \in {"loop", "built"}
  /\ cerror' \in {"", "Top level enums duplicates", "TypeError"}
  /\ passes' \in 0..MaxPasses

FixSpec == FixInit /\ [][EnumNext]_vars /\ WF_<<cpc, cerror, passes>>(iteration)

\* What a step of the run does to the recorded collisions.
collisionsStep ==
  /\ duplicates \subseteq duplicates'
  /\ (cpc = "loop" /\ cpc' = "loop" /\ cerror' = "") => duplicates' # duplicates
  /\ (cpc = "loop" /\ cpc' = "built") => (duplicates' = duplicates /\ cerror' = "")

(***************************************************************************)
(* C22. The fix-point of the constructor terminates: the set of recorded   *)
(* collisions only grows, a pass after which the loop goes on has added a  *)
(* collision, the loop ends with the first pass that adds none, and every  *)
(* loop that has begun ends, completed or thrown for an exhausted path.    *)
(***************************************************************************)
C22_FixPointTerminates ==
  /\ [][collisionsStep]_vars
  /\ (cpc = "loop") ~> (cpc = "built" \/ cerror = "Top level enums duplicates")

\* A loop that needed a second pass and completed.
C22_Witness == cpc = "built" /\ passes >= 2 /\ duplicates # {}

\* The candidates of a reached enum node, from the innermost: the name of
\* the node, then each enclosing path segment prepended in turn.
RECURSIVE candidate(_, _)
candidate(at, k) ==
  IF k = 0 THEN pascalCase(at[Len(at)])
  ELSE pascalCase(at[Len(at) - k] \o candidate(at, k - 1))

\* The rejection rules that do not depend on the order of traversal.
rejected(c) ==
  \/ \E i \in 1..Len(types) : types[i].name = c
  \/ c \in duplicates
  \/ Len(c) < 3
  \/ c = <<"T", "y", "p", "e">>

\* Every candidate of the node is rejected.
exhausted(n) == \A k \in 0..(Len(n.at) - 1) : rejected(candidate(n.at, k))

resolved(ts) == {n \in enumNodes(ts) : n.reached /\ ~globalEnum(ts, pascalCase(n.name))}

(***************************************************************************)
(* C23. A name held by an enum node is not the name of a declaration, has  *)
(* at least 3 characters and is not the word Type, and when the resolver   *)
(* has completed it is not a recorded collision; the run has thrown 'Top   *)
(* level enums duplicates' only with a node all of whose candidates are    *)
(* rejected, and has completed only without such a node.                   *)
(***************************************************************************)
C23_AssignedNamesLegal ==
  /\ \A n \in enumNodes(types) :
       named(n) =>
         /\ \A i \in 1..Len(types) : types[i].name # n.extractedEnumName
         /\ Len(n.extractedEnumName) >= 3
         /\ n.extractedEnumName # <<"T", "y", "p", "e">>
         /\ Built => n.extractedEnumName \notin duplicates
  /\ cerror = "Top level enums duplicates" => \E n \in resolved(types) : exhausted(n)
  /\ Built => \A n \in resolved(types) : named(n) /\ ~exhausted(n)

\* A completed run in which a candidate was rejected and a longer name
\* assigned.
C23_Witness ==
  /\ Built
  /\ duplicates # {}
  /\ \E n \in resolved(types) : Len(n.extractedEnumName) > Len(pascalCase(n.name))

\* A run that threw for an exhausted path.
C23_WitnessThrown == cerror = "Top level enums duplicates"

\* The values the tag field of a member schema may take, when the member
\* declares the tag as an inline enum.
tagEnumOf(key) ==
  LET props == nodeOf(key).properties
      i == CHOOSE j \in 1..Len(props) : props[j][1] = kind
  IN IF Has(props[i][2], "enum") THEN Range(props[i][2].enum) ELSE {}

\* The member A declares the tag as an enum that lacks the tag the mapping
\* gives it.
tagIsIllegal ==
  /\ tagEnumOf(NameA) # {}
  /\ tagOf(third[2].discriminator.mapping, LocalA["$ref"]) \notin tagEnumOf(NameA)

\* C24: in named-enum mode, a union variant whose tag literal is not a
\* legal value of the enum its tag field is declared with is emitted
\* without an error, its tag pinned to the raw string literal.
C24_IllegalTagPinnedRaw ==
  (/\ useEnums
   /\ docFile = <<>>
   /\ isMappedUnion(third[2])
   /\ Has(third[2], "type")
   /\ ~Has(third[2], "properties")
   /\ {third[2].discriminator.mapping[i][2] :
         i \in 1..Len(third[2].discriminator.mapping)} = refStrings(third[2].oneOf)
   /\ membersArePlain
   /\ tagIsIllegal)
  =>
  /\ cerror = ""
  /\ cpc = "emitted" =>
       typeLine(third[1],
                <<"(">> \o join([i \in 1..Len(third[2].oneOf) |-> pinnedMember(third[2], i)],
                                <<" | ">>) \o <<")">>)
         \in Range(definitions)

(***************************************************************************)
(* The documents the error taxonomy of convertType is checked on: an       *)
(* entry document of up to MaxKindSchemas schemas, each a node with or     *)
(* without a type, properties, additionalProperties, oneOf or allOf.       *)
(***************************************************************************)
MaxKindSchemas == 2

KnownTypes == {"boolean", "number", "string", "integer", "array", "object"}

KindNodes ==
  {StringSchema,
   [type |-> "integer"],
   [type |-> "array"],
   [type |-> "object"],
   [type |-> "file"],
   [description |-> Str("d")],
   [oneOf |-> <<StringSchema>>],
   [allOf |-> <<StringSchema>>],
   [type |-> "object", allOf |-> <<StringSchema>>],
   [properties |-> <<<<Str("x"), StringSchema>>>>],
   [additionalProperties |-> [lit |-> "true"]]}

KindInit ==
  /\ entry \in [schemas : Entries({NameA, NameB}, KindNodes, MaxKindSchemas), paths : {<<>>}]
  /\ disk = (FileA :> NoFile) @@ (FileB :> NoFile)
  /\ InitRun
  /\ DefaultOptions

\* parseOpenapi on the documents of the error taxonomy.
KindSpec == KindInit /\ [][NameNext]_vars

\* A node with no type, no properties and no compositional keyword.
bare(node) ==
  \A key \in {"$ref", "type", "properties", "additionalProperties", "oneOf", "allOf"} :
    ~Has(node, key)

\* A node whose type is present and is none of the types convertType knows.
unrecognized(node) == Has(node, "type") /\ node.type \notin KnownTypes

\* A node with oneOf or allOf and no type.
composedUntyped(node) ==
  ~Has(node, "type") /\ (Has(node, "oneOf") \/ Has(node, "allOf"))

\* fitModels has run on the entry document.
converted == pc # "start" \/ error # ""

(***************************************************************************)
(* C25. convertType throws the invalid-object-notation error for a node    *)
(* with no type, no properties and no compositional keyword; it throws the *)
(* unknown-field-type error only for a node whose type is present and      *)
(* unrecognized; a node with oneOf or allOf and no type gets neither.      *)
(***************************************************************************)
C25_ErrorTaxonomy ==
  converted =>
    /\ (entry.schemas # <<>> /\ bare(entry.schemas[1][2])) =>
         error = "Invalid object notation"
    /\ error = "Unknown field type" =>
         \E i \in 1..Len(entry.schemas) : unrecognized(entry.schemas[i][2])
    /\ (\A i \in 1..Len(entry.schemas) : composedUntyped(entry.schemas[i][2])) =>
         error \notin {"Invalid object notation", "Unknown field type"}

\* A node without the names traverse attaches: traverse (lines 65, 110)
\* visits the enum nodes it reaches through object fields.
RECURSIVE eraseNames(_)
eraseNames(type) ==
  CASE type.type = "enum" -> [type EXCEPT !.extractedEnumName = <<>>]
    [] type.type = "object" ->
         [type EXCEPT !.fields =
            [i \in 1..Len(type.fields) |->
               [type.fields[i] EXCEPT !.type = eraseNames(type.fields[i].type)]]]
    [] OTHER -> type

\* The registry without the assigned names.
erased(ts) == [i \in 1..Len(ts) |-> [ts[i] EXCEPT !.type = eraseNames(ts[i].type)]]

\* A step of the converter leaves the registry as it is, but for the
\* assigned names while the constructor is naming.
registryFramed ==
  /\ cpc = "loop" => erased(types') = erased(types) /\ notLoadedTypes' = notLoadedTypes
  /\ cpc \in {"built", "emitted"} => types' = types /\ notLoadedTypes' = notLoadedTypes

(***************************************************************************)
(* C26. The naming passes change nothing of the registry but the assigned  *)
(* name of enum nodes: keys, local names, node kinds, field lists and      *)
(* value lists stay as they are.  extractDefinitions (and the toTs calls   *)
(* it makes) changes nothing of the registry.                              *)
(***************************************************************************)
C26_RegistryFrame == [][registryFramed]_vars

\* Names have been assigned and the definitions emitted, with names used.
C26_Witness ==
  /\ cpc = "emitted"
  /\ usedTypes # {}
  /\ types # erased(types)

(***************************************************************************)
(* The documents extractPathParams is checked on: one route without        *)
(* methods whose template is any string of up to MaxTemplateLen braces     *)
(* and letters.                                                            *)
(***************************************************************************)
MaxTemplateLen == 6

TemplateAlphabet == {"{", "}", "a", "b"}

PathInit ==
  /\ entry \in [schemas : {<<>>},
                paths : {<<[path |-> t, methods |-> <<>>]>> :
                           t \in SeqsUpTo(TemplateAlphabet, MaxTemplateLen)}]
  /\ disk = (FileA :> NoFile) @@ (FileB :> NoFile)
  /\ InitRun
  /\ DefaultOptions

PathNext ==
  \/ Start
  \/ BeginRoute
  \/ EndRoutes
  \/ EndLoad
  \/ Return

\* parseOpenapi on the one-route documents: the template is scanned.
PathSpec == PathInit /\ [][PathNext]_vars

\* The positions where a `{identifier}` placeholder of the template begins.
placeholderStarts(t) == {i \in 1..Len(t) : \E j \in 1..Len(t) : placeholderAt(t, i, j)}

\* The identifier of the placeholder that begins at position i.
identifierAt(t, i) ==
  SubSeq(t, i + 1, (CHOOSE j \in 1..Len(t) : placeholderAt(t, i, j)) - 1)

\* The identifiers of the template's placeholders from position i on, left
\* to right.
RECURSIVE identifiersFrom(_, _)
identifiersFrom(t, i) ==
  IF i > Len(t) THEN <<>>
  ELSE IF i \in placeholderStarts(t)
  THEN <<identifierAt(t, i)>> \o identifiersFrom(t, i + 1)
  ELSE identifiersFrom(t, i + 1)

\* Every brace of the template is the brace of one of its placeholders.
wellBraced(t) ==
  \A k \in 1..Len(t) :
    t[k] \in {"{", "}"} =>
      \E i, j \in 1..Len(t) : placeholderAt(t, i, j) /\ k \in {i, j}

\* The route's template has been scanned.
scanned == pc # "start" /\ (routeIdx > 1 \/ error # "")

(***************************************************************************)
(* C27. extractPathParams returns exactly the identifiers of the           *)
(* `{identifier}` placeholders of the route template, left to right, and   *)
(* throws the invalid-parameter-syntax error for every template with a     *)
(* brace that is not part of such a placeholder.                           *)
(***************************************************************************)
C27_PlaceholdersExact ==
  scanned =>
    IF wellBraced(entry.paths[1].path)
    THEN /\ error = ""
         /\ extractPathParams(entry.paths[1].path).params
              = identifiersFrom(entry.paths[1].path, 1)
         /\ pc = "routes" => pathParams = Range(identifiersFrom(entry.paths[1].path, 1))
    ELSE error = "Url have invalid parameter syntax"

(***************************************************************************)
(* The documents the parameter normalization is checked on: one route      *)
(* with one operation that declares up to MaxParamDecls parameters, in the *)
(* path or the query, required, not required or silent about it, with or   *)
(* without a schema of their own.                                          *)
(***************************************************************************)
MaxParamDecls == 2

IntegerSchema == [type |-> "integer"]

TypedParamDecls ==
  {[in |-> "path", name |-> <<"i">>, required |-> TRUE],
   [in |-> "path", name |-> <<"i">>, required |-> TRUE, schema |-> IntegerSchema],
   [in |-> "path", name |-> <<"i">>, required |-> FALSE],
   [in |-> "path", name |-> <<"i">>],
   [in |-> "query", name |-> <<"q">>, required |-> TRUE, schema |-> IntegerSchema],
   [in |-> "query", name |-> <<"q">>, required |-> FALSE],
   [in |-> "query", name |-> <<"q">>]}

ParamTemplates == {<<"/", "x">>, <<"/", "{", "i", "}">>}

ParamInit ==
  /\ entry \in [schemas : {<<>>},
                paths : {<<[path |-> t,
                            methods |-> <<[method |-> "get", info |-> [parameters |-> ps]]>>]>> :
                           t \in ParamTemplates,
                           ps \in SeqsUpTo(TypedParamDecls, MaxParamDecls)}]
  /\ disk = (FileA :> NoFile) @@ (FileB :> NoFile)
  /\ InitRun
  /\ DefaultOptions

ParamNext ==
  \/ Start
  \/ BeginRoute
  \/ Method
  \/ EndRoutes
  \/ EndLoad
  \/ Return

\* parseOpenapi on the parameter documents.
ParamSpec == ParamInit /\ [][ParamNext]_vars

isQuery(p) == p.place = "QUERY"
inQuery(d) == d.in = "query"

\* The required flags of the query-location parameters of an operation,
\* and those of the query declarations of its info, in their order.
queryFlags(parameters) ==
  [i \in 1..Len(SelectSeq(parameters, isQuery)) |-> SelectSeq(parameters, isQuery)[i].required]
declaredQueryFlags(info) ==
  [i \in 1..Len(SelectSeq(info.parameters, inQuery)) |->
     requiredOf(SelectSeq(info.parameters, inQuery)[i])]

\* The operation declares a path parameter that is not required.
optionalInPath(info) ==
  \E i \in 1..Len(info.parameters) :
    info.parameters[i].in = "path" /\ ~requiredOf(info.parameters[i])

(***************************************************************************)
(* C28. In every operation appended, every path-location parameter is      *)
(* required and every path- or query-location parameter has the type       *)
(* string, whatever schema it declared; an operation that declares a       *)
(* non-required path parameter is never appended, the run throws on it;    *)
(* a query parameter keeps the required flag it declared.                  *)
(***************************************************************************)
C28_ParametersNormalized ==
  /\ \A k \in 1..Len(apiMethods) :
       \A n \in 1..Len(apiMethods[k].params.parameters) :
         /\ apiMethods[k].params.parameters[n].place = "IN_PATH" =>
              apiMethods[k].params.parameters[n].required = TRUE
         /\ apiMethods[k].params.parameters[n].place \in {"IN_PATH", "QUERY"} =>
              apiMethods[k].params.parameters[n].type = [type |-> "string"]
  /\ optionalInPath(theMethod.info) =>
       /\ apiMethods = <<>>
       /\ pc \notin {"load", "done"}
       /\ error \in {"", "Non-required parameter", "Api path doesn't contain parameter"}
  /\ apiMethods # <<>> =>
       queryFlags(apiMethods[1].params.parameters) = declaredQueryFlags(theMethod.info)

\* An operation appended with a path parameter and a mandatory query
\* parameter, both declared with an integer schema.
C28_Witness ==
  /\ apiMethods # <<>>
  /\ \E i, j \in 1..Len(theMethod.info.parameters) :
       /\ theMethod.info.parameters[i].in = "path"
       /\ Has(theMethod.info.parameters[i], "schema")
       /\ theMethod.info.parameters[j].in = "query"
       /\ Has(theMethod.info.parameters[j], "schema")
  /\ queryFlags(apiMethods[1].params.parameters) = <<TRUE>>

\* The run threw on a path parameter declared non-required.
C28_WitnessThrown ==
  /\ optionalInPath(theMethod.info)
  /\ methodThrew
  /\ error = "Non-required parameter"

\* The keys that are pending.
pendingKeys(pending) == {pending[i] : i \in 1..Len(pending)}

\* A step of the resolution removes no key of the registry, adds to the
\* pending set only keys the registry lacked, and leaves no key it has
\* registered pending.
registryGrows ==
  /\ registryKeys(types) \subseteq registryKeys(types')
  /\ (pendingKeys(notLoadedTypes') \ pendingKeys(notLoadedTypes)) \cap registryKeys(types) = {}
  /\ (registryKeys(types') \ registryKeys(types)) \cap pendingKeys(notLoadedTypes') = {}

(***************************************************************************)
(* C29. Throughout the resolution the registry only grows, no key is ever  *)
(* removed from it, and the pending set is disjoint from the keys of the   *)
(* registry: a key becomes pending only when the registry lacks it and     *)
(* registering a key removes it from the pending set.                      *)
(***************************************************************************)
C29_RegistryMonotone ==
  /\ [][registryGrows]_vars
  /\ [](pendingKeys(notLoadedTypes) \cap registryKeys(types) = {})

\* A file has been loaded: keys that were pending are registered, another
\* is still pending.
C29_Witness ==
  /\ refsSeen \cap registryKeys(types) # {}
  /\ notLoadedTypes # <<>>
  /\ \E f \in ExtFiles : loads[f] > 0

\* The values stored under a name of inlineEnums.
storedValues(name) == {inlineEnums[name][i].value : i \in 1..Len(inlineEnums[name])}

(***************************************************************************)
(* C30. When the naming resolver has completed, the keys of inlineEnums    *)
(* are exactly the names held by enum nodes, and the values stored under   *)
(* a name are the values of every node that holds it.                      *)
(***************************************************************************)
C30_MapMatchesNodes ==
  Built =>
    /\ DOMAIN inlineEnums = {n.extractedEnumName : n \in {m \in enumNodes(types) : named(m)}}
    /\ \A n \in enumNodes(types) :
         named(n) => storedValues(n.extractedEnumName) = valueSet(n.values)

====
